---- MODULE Spec2Model ----
(***************************************************************************)
(* State-machine models of the client-side components of the rotki        *)
(* frontend: each component is one group of variables with its own         *)
(* specification; an asynchronous handler is a slot of a call table that   *)
(* is suspended at the await it is waiting on.                             *)
(***************************************************************************)
EXTENDS Integers, Sequences, FiniteSets, TLC

VARIABLES
    \* ---- external services settings (src/unnamed/part_013)
    ES_loading,      \* ref `loading`
    ES_keys,         \* the displayed api keys (evmEtherscanTabs, cryptocompareKey, ...)
    ES_backend,      \* the keys stored by the backend
    ES_calls,        \* the handlers suspended at an await
    ES_message,      \* the message store: the last message set
    ES_notifData,    \* the notification store's current notifications (ids)
    ES_prioritized,  \* `prioritized` as destructured from the store in setup
    ES_mounted,      \* the mounted hook has run
    ES_last,         \* the handler that returned (or died) last, and what it did
    \* ---- snapshot edit dialog (EditBalancesSnapshotForm.vue, second script)
    SN_snapshotData,   \* ref `snapshotData`: null or the snapshot being edited
    SN_backend,        \* the snapshot stored by the backend for `timestamp`
    SN_calls,          \* the handlers suspended at an await
    SN_notifications,  \* the notifications displayed by the notification store
    SN_emitted,        \* 'finish' has been emitted
    SN_last,           \* the save() that returned last
    SN_issued,         \* history: the save() issued last and the saves around it
    \* ---- history events view, periodic refetch (src/unnamed/part_010)
    HE_status,    \* the store refs that shouldFetchEventsRegularly is computed from
    HE_phase,     \* "setup" (setup has run), "mounted", "unmounted"
    HE_isActive,  \* isActive of useIntervalFn
    HE_ticks,     \* the interval callbacks run so far
    \* ---- table filter (TableFilter.vue)
    TF_selection,  \* ref `selection`
    TF_pairs,      \* the array the combobox hands to updateMatches
    TF_emitted,    \* the payload of 'update:matches', then the prop `matches`
    TF_phase,      \* "input", "emitted" once updateMatches ran, "restored" after the watch
    \* ---- profit/loss events table (UserNotesSidebar.vue, second script)
    PL_options,    \* ref `options`
    PL_route,      \* the current route
    PL_emitted,    \* the payloads of 'update:page', oldest first
    \* ---- EVM RPC node manager (LedgerActionSettings.vue, second script)
    NM_nodes,          \* ref `nodes`, the displayed list
    NM_backend,        \* the nodes the backend holds
    NM_calls,          \* slot -> the handler suspended at an await
    NM_message,        \* the message store: the last setMessage
    NM_notifications,  \* the notifications raised
    \* ---- backup manager (part_007)
    BK_backupInfo,     \* ref `backupInfo`: null, or the info with its userdb.backups
    BK_selected,       \* ref `selected`
    BK_loading,        \* ref `loading`
    BK_saving,         \* ref `saving`
    BK_backend,        \* the backups the backend holds
    BK_calls,          \* slot -> the handler suspended at an await
    BK_notifications,  \* the notifications raised and not dismissed
    BK_last,           \* history: the handler that finished last, and how
    \* ---- history events view: the delete/ignore prompt (part_010)
    DP_eventToDelete,       \* ref `eventToDelete`: an item, or 0 for null
    DP_transactionToIgnore, \* ref `transactionToIgnore`: an item, or 0 for null
    DP_dialog,              \* the confirmation dialog: the item it was opened for, or closed
    DP_calls,               \* slot -> the deleteEventHandler suspended at an await
    DP_deleted,             \* the events deleted at the backend
    DP_ignored,             \* the transactions ignored at the backend
    DP_wrong,               \* history: a confirmation deleted or ignored another item
    \* ---- table filter: the search field and its suggestions (TableFilter.vue)
    FI_selection,           \* ref `selection`
    FI_search,              \* ref `search`: the text of the input
    FI_selectedSuggestion,  \* ref `selectedSuggestion`
    FI_suggestedFilter,     \* ref `suggestedFilter`: the last @suggest of the dropdown
    FI_emitted,             \* the last 'update:matches' payload the parent has not passed back
    FI_last,                \* history: the last applyFilter or applySuggestion, else "other"
    \* ---- managed asset form (part_006)
    AF_editableItem,   \* prop `editableItem` is set: the form edits an asset
    AF_address,        \* ref `address`
    AF_evmChain,       \* ref `evmChain`, "" for undefined
    AF_name,           \* ref `name`
    AF_symbol,         \* ref `symbol`
    AF_decimals,       \* ref `decimals`, "null" for null
    AF_fetching,       \* ref `fetching`
    AF_dontAutoFetch,  \* ref `dontAutoFetch`
    AF_calls,          \* slot -> the watcher suspended at fetchTokenDetails
    AF_message,        \* the message store: the last handleError and its description
    \* ---- asset update: the conflict dialog (ConflictDialog.vue)
    CD_conflicts,      \* prop `conflicts`: the identifiers of the conflicting assets
    CD_resolution,     \* ref `resolution`: identifier -> strategy, "absent" for no key
    CD_emitted,        \* the payload of the last 'resolve' event
    \* ---- create account wizard (CreateAccountForm.vue)
    CA_step,                 \* ref `step`
    CA_username,             \* ref `username`
    CA_password,             \* ref `password`
    CA_passwordConfirm,      \* ref `passwordConfirm`
    CA_userPrompted,         \* ref `userPrompted`: the backup reminder checkbox
    CA_premiumEnabled,       \* ref `premiumEnabled`
    CA_premiumFormValid,     \* ref `premiumFormValid`
    CA_syncDatabase,         \* ref `syncDatabase`
    CA_credentialsFormValid, \* ref `credentialsFormValid`
    CA_loading,              \* prop `loading`
    CA_error,                \* prop `error`
    CA_emitted,              \* the last event emitted
    \* ---- manual balance form (ManualBalancesForm.vue)
    MB_edit,           \* prop `edit`: the label of the edited balance, "" for null
    MB_label,          \* ref `label`
    MB_errors,         \* ref `errors`: the label entry ("absent" for none) and the rest
    MB_store,          \* the labels of the manual balances in the store
    MB_manualLabels,   \* `manualLabels` as taken from the store in setup
    \* ---- sync indicator (part_003)
    SI_visible,                   \* ref `visible`: the menu is open
    SI_syncAction,                \* ref `syncAction`
    SI_displayConfirmation,       \* ref `displayConfirmation`
    SI_confirmChecked,            \* ref `confirmChecked`
    SI_pending,                   \* ref `pending`
    SI_isSyncing,                 \* isTaskRunning(FORCE_SYNC)
    SI_canRequestData,            \* `canRequestData` of the session auth store
    SI_balanceSnapshotFile,       \* ref `balanceSnapshotFile`
    SI_locationDataSnapshotFile,  \* ref `locationDataSnapshotFile`
    SI_importSnapshotLoading,     \* ref `importSnapshotLoading`
    SI_calls,                     \* the calls of importSnapshot awaiting the backend
    SI_message,                   \* the message last given to setMessage
    SI_timers,                    \* the logout timers set and not yet fired
    SI_loggedOut,                 \* actionLogout has run
    \* ---- snapshot total (part_001)
    ST_value,           \* prop `value`: the location data, usdValue in quarters
    ST_currencySymbol,  \* `currencySymbol` of the general settings
    ST_total,           \* ref `total`: the text of the input
    ST_emitted,         \* the `input` events: their number and the last list
    ST_threw,           \* the last save() was rejected
    \* ---- NFT image rendering setting (NftImageRenderingSetting.vue)
    NF_whitelist,                        \* `whitelist` of the frontend settings store
    NF_whitelistedDomainsForNftImages,   \* ref `whitelistedDomainsForNftImages`
    NF_showUpdateWhitelistConfirmation,  \* ref `showUpdateWhitelistConfirmation`
    NF_updates,                          \* the calls of updateSetting: number, last payload, from the dialog
    \* ---- blockchain account selector: the selectable accounts (part_004)
    SA_accounts,     \* `accounts` of useAccountBalances: the array held by the store
    SA_chains,       \* prop `chains`
    SA_multichain,   \* prop `multichain`
    SA_unique,       \* prop `unique`
    SA_selectable,   \* the value of `selectableAccounts`
    \* ---- blockchain account selector: the selection (part_004)
    SE_multiple,   \* prop `multiple`
    SE_value,      \* prop `value`
    SE_emitted,    \* the `input` events: their number and the last list
    \* ---- history events view: account filter (part_010)
    HV_accounts,                  \* ref `accounts`
    HV_useExternalAccountFilter,  \* prop `useExternalAccountFilter`
    HV_filters,                   \* `filters` of the pagination filters
    HV_page,                      \* `options.page`
    HV_locationOverview,          \* ref `locationOverview`, at first the prop `location`
    \* ---- snapshot balance form (EditBalancesSnapshotForm.vue)
    BF_edit,       \* prop `edit`
    BF_form,       \* prop `form`: category, assetIdentifier (its characters), amount
    BF_assetType,  \* ref `assetType`
    BF_emitted,    \* the `update:form` events: their number and the last payload
    \* ---- external trade form (part_011)
    TR_amount,                   \* ref `amount`, a text
    TR_rate,                     \* ref `rate`, a text
    TR_quoteAmount,              \* ref `quoteAmount`, a text
    TR_quoteAmountInputFocused,  \* ref `quoteAmountInputFocused`
    TR_fetching,                 \* fetchPrice awaits the historic price
    TR_rateNotFound,             \* errorMessages holds rate_not_found
    TR_queue,                    \* the watchers waiting to run
    TR_chain,                    \* the watchers run since the last change
    TR_last                      \* the last change: its kind, and rate, quote amount and focus after it

esVars == <<ES_loading, ES_keys, ES_backend, ES_calls, ES_message,
            ES_notifData, ES_prioritized, ES_mounted, ES_last>>

snVars == <<SN_snapshotData, SN_backend, SN_calls, SN_notifications, SN_emitted, SN_last,
            SN_issued>>

heVars == <<HE_status, HE_phase, HE_isActive, HE_ticks>>

tfVars == <<TF_selection, TF_pairs, TF_emitted, TF_phase>>

plVars == <<PL_options, PL_route, PL_emitted>>

nmVars == <<NM_nodes, NM_backend, NM_calls, NM_message, NM_notifications>>

bkVars == <<BK_backupInfo, BK_selected, BK_loading, BK_saving, BK_backend, BK_calls,
           BK_notifications, BK_last>>

dpVars == <<DP_eventToDelete, DP_transactionToIgnore, DP_dialog, DP_calls, DP_deleted,
             DP_ignored, DP_wrong>>

fiVars == <<FI_selection, FI_search, FI_selectedSuggestion, FI_suggestedFilter,
             FI_emitted, FI_last>>

afVars == <<AF_editableItem, AF_address, AF_evmChain, AF_name, AF_symbol, AF_decimals,
             AF_fetching, AF_dontAutoFetch, AF_calls, AF_message>>

cdVars == <<CD_conflicts, CD_resolution, CD_emitted>>

caVars == <<CA_step, CA_username, CA_password, CA_passwordConfirm, CA_userPrompted,
             CA_premiumEnabled, CA_premiumFormValid, CA_syncDatabase,
             CA_credentialsFormValid, CA_loading, CA_error, CA_emitted>>

mbVars == <<MB_edit, MB_label, MB_errors, MB_store, MB_manualLabels>>

siVars == <<SI_visible, SI_syncAction, SI_displayConfirmation, SI_confirmChecked,
             SI_pending, SI_isSyncing, SI_canRequestData, SI_balanceSnapshotFile,
             SI_locationDataSnapshotFile, SI_importSnapshotLoading, SI_calls,
             SI_message, SI_timers, SI_loggedOut>>

stVars == <<ST_value, ST_currencySymbol, ST_total, ST_emitted, ST_threw>>

nfVars == <<NF_whitelist, NF_whitelistedDomainsForNftImages,
             NF_showUpdateWhitelistConfirmation, NF_updates>>

saVars == <<SA_accounts, SA_chains, SA_multichain, SA_unique, SA_selectable>>

seVars == <<SE_multiple, SE_value, SE_emitted>>

hvVars == <<HV_accounts, HV_useExternalAccountFilter, HV_filters, HV_page,
             HV_locationOverview>>

bfVars == <<BF_edit, BF_form, BF_assetType, BF_emitted>>

trVars == <<TR_amount, TR_rate, TR_quoteAmount, TR_quoteAmountInputFocused,
             TR_fetching, TR_rateNotFound, TR_queue, TR_chain, TR_last>>

vars == <<esVars, snVars, heVars, tfVars, plVars, nmVars, bkVars, dpVars, fiVars,
         afVars, cdVars, caVars, mbVars, siVars, stVars, nfVars, saVars, seVars,
         hvVars, bfVars, trVars>>

\* what a component leaves alone: the variables of the other components
ES_others == <<snVars, heVars, tfVars, plVars, nmVars, bkVars, dpVars, fiVars, afVars,
                cdVars, caVars, mbVars, siVars, stVars, nfVars, saVars, seVars, hvVars,
                bfVars, trVars>>
SN_others == <<esVars, heVars, tfVars, plVars, nmVars, bkVars, dpVars, fiVars, afVars,
                cdVars, caVars, mbVars, siVars, stVars, nfVars, saVars, seVars, hvVars,
                bfVars, trVars>>
HE_others == <<esVars, snVars, tfVars, plVars, nmVars, bkVars, dpVars, fiVars, afVars,
                cdVars, caVars, mbVars, siVars, stVars, nfVars, saVars, seVars, hvVars,
                bfVars, trVars>>
TF_others == <<esVars, snVars, heVars, plVars, nmVars, bkVars, dpVars, fiVars, afVars,
                cdVars, caVars, mbVars, siVars, stVars, nfVars, saVars, seVars, hvVars,
                bfVars, trVars>>
PL_others == <<esVars, snVars, heVars, tfVars, nmVars, bkVars, dpVars, fiVars, afVars,
                cdVars, caVars, mbVars, siVars, stVars, nfVars, saVars, seVars, hvVars,
                bfVars, trVars>>
NM_others == <<esVars, snVars, heVars, tfVars, plVars, bkVars, dpVars, fiVars, afVars,
                cdVars, caVars, mbVars, siVars, stVars, nfVars, saVars, seVars, hvVars,
                bfVars, trVars>>
BK_others == <<esVars, snVars, heVars, tfVars, plVars, nmVars, dpVars, fiVars, afVars,
                cdVars, caVars, mbVars, siVars, stVars, nfVars, saVars, seVars, hvVars,
                bfVars, trVars>>
DP_others == <<esVars, snVars, heVars, tfVars, plVars, nmVars, bkVars, fiVars, afVars,
                cdVars, caVars, mbVars, siVars, stVars, nfVars, saVars, seVars, hvVars,
                bfVars, trVars>>
FI_others == <<esVars, snVars, heVars, tfVars, plVars, nmVars, bkVars, dpVars, afVars,
                cdVars, caVars, mbVars, siVars, stVars, nfVars, saVars, seVars, hvVars,
                bfVars, trVars>>
AF_others == <<esVars, snVars, heVars, tfVars, plVars, nmVars, bkVars, dpVars, fiVars,
                cdVars, caVars, mbVars, siVars, stVars, nfVars, saVars, seVars, hvVars,
                bfVars, trVars>>
CD_others == <<esVars, snVars, heVars, tfVars, plVars, nmVars, bkVars, dpVars, fiVars,
                afVars, caVars, mbVars, siVars, stVars, nfVars, saVars, seVars, hvVars,
                bfVars, trVars>>
CA_others == <<esVars, snVars, heVars, tfVars, plVars, nmVars, bkVars, dpVars, fiVars,
                afVars, cdVars, mbVars, siVars, stVars, nfVars, saVars, seVars, hvVars,
                bfVars, trVars>>
MB_others == <<esVars, snVars, heVars, tfVars, plVars, nmVars, bkVars, dpVars, fiVars,
                afVars, cdVars, caVars, siVars, stVars, nfVars, saVars, seVars, hvVars,
                bfVars, trVars>>
SI_others == <<esVars, snVars, heVars, tfVars, plVars, nmVars, bkVars, dpVars, fiVars,
                afVars, cdVars, caVars, mbVars, stVars, nfVars, saVars, seVars, hvVars,
                bfVars, trVars>>
ST_others == <<esVars, snVars, heVars, tfVars, plVars, nmVars, bkVars, dpVars, fiVars,
                afVars, cdVars, caVars, mbVars, siVars, nfVars, saVars, seVars, hvVars,
                bfVars, trVars>>
NF_others == <<esVars, snVars, heVars, tfVars, plVars, nmVars, bkVars, dpVars, fiVars,
                afVars, cdVars, caVars, mbVars, siVars, stVars, saVars, seVars, hvVars,
                bfVars, trVars>>
SA_others == <<esVars, snVars, heVars, tfVars, plVars, nmVars, bkVars, dpVars, fiVars,
                afVars, cdVars, caVars, mbVars, siVars, stVars, nfVars, seVars, hvVars,
                bfVars, trVars>>
SE_others == <<esVars, snVars, heVars, tfVars, plVars, nmVars, bkVars, dpVars, fiVars,
                afVars, cdVars, caVars, mbVars, siVars, stVars, nfVars, saVars, hvVars,
                bfVars, trVars>>
HV_others == <<esVars, snVars, heVars, tfVars, plVars, nmVars, bkVars, dpVars, fiVars,
                afVars, cdVars, caVars, mbVars, siVars, stVars, nfVars, saVars, seVars,
                bfVars, trVars>>
BF_others == <<esVars, snVars, heVars, tfVars, plVars, nmVars, bkVars, dpVars, fiVars,
                afVars, cdVars, caVars, mbVars, siVars, stVars, nfVars, saVars, seVars,
                hvVars, trVars>>
TR_others == <<esVars, snVars, heVars, tfVars, plVars, nmVars, bkVars, dpVars, fiVars,
                afVars, cdVars, caVars, mbVars, siVars, stVars, nfVars, saVars, seVars,
                hvVars, bfVars>>

(***************************************************************************)
(* Bounds                                                                  *)
(***************************************************************************)
ES_MaxCalls == 2    \* external services: handlers suspended at the same time
MaxNotif == 2       \* notifications the store can hold
SN_MaxCalls == 2    \* snapshot dialog: handlers suspended at the same time
SN_MaxNotifications == 2  \* snapshot dialog: notifications displayed at the same time
HE_MaxTicks == 2    \* history events: interval callbacks counted
TF_MaxPairs == 2    \* table filter: entries of a selection handed to updateMatches
PL_MaxPage == 3     \* profit/loss events: pages of the table
PL_MaxEmits == 2    \* profit/loss events: 'update:page' events recorded
NM_MaxNodes == 2    \* node manager: nodes of the chain
NM_MaxCalls == 2    \* node manager: handlers in flight at once
NM_MaxNotifications == 1  \* node manager: notifications counted
BK_MaxCalls == 2    \* backup manager: handlers in flight at once
BK_MaxNotifications == 1  \* backup manager: notifications counted
DP_MaxCalls == 2    \* delete prompt: deleteEventHandler calls in flight at once
FI_MaxSelection == 2  \* table filter: entries of the selection
FI_MaxTotal == 2    \* table filter: suggestions the dropdown reports
AF_MaxCalls == 2    \* managed asset form: token-details requests in flight at once
CA_FirstStep == 1   \* create account wizard: the first step of the stepper
CA_LastStep == 3    \* create account wizard: the last step of the stepper
SI_MaxCalls == 2
SI_MaxTimers == 2
ST_MaxLen == 3
ST_MaxQuarters == 8
ST_MaxEmits == 2
NF_MaxLen == 2
NF_MaxUpdates == 2
SA_MaxAccounts == 3
SA_MaxPushed == 2
SE_MaxLen == 3
SE_MaxEmits == 4
HV_MaxPage == 3
HV_MaxAccounts == 2
BF_MaxEmits == 2
TR_MaxQuarters == 32
TR_MaxChain == 4

\* ---- generic helpers ------------------------------------------------------
RECURSIVE SeqToSet(_)
SeqToSet(s) == IF s = <<>> THEN {} ELSE {Head(s)} \cup SeqToSet(Tail(s))

\* the call tables: slot -> the handler suspended there, or idle
Idle == [op |-> "idle"]
Busy(calls) == {i \in DOMAIN calls : calls[i] # Idle}
HasFree(calls) == Busy(calls) # DOMAIN calls
FreeSlot(calls) == CHOOSE i \in DOMAIN calls \ Busy(calls) :
                       \A j \in DOMAIN calls \ Busy(calls) : i <= j
Start(calls, c) == [calls EXCEPT ![FreeSlot(calls)] = c]
Become(calls, i, c) == [calls EXCEPT ![i] = c]
End(calls, i) == [calls EXCEPT ![i] = Idle]

RECURSIVE Descending(_)
\* the elements of a finite set of numbers, the largest first
Descending(S) ==
    IF S = {} THEN <<>>
    ELSE LET m == CHOOSE x \in S : \A y \in S : y <= x
         IN <<m>> \o Descending(S \ {m})

(***************************************************************************)
(* External services settings                                              *)
(***************************************************************************)
TRADE_LOCATION_ETHEREUM == "ethereum"
TRADE_LOCATION_OPTIMISM == "optimism"

\* the services of the page that differ in save(): two etherscan tabs (the third
\* tab, polygon_pos, takes the same branch as optimism), loopring, and one of the
\* services without a branch of its own
ExternalServiceName == {"etherscan", "optimism_etherscan", "loopring", "cryptocompare"}

\* the api keys a user types: strings over a blank and a letter
ApiKeyInputs == {<<"a">>, <<" ", "a">>, <<"a", " ">>}

RECURSIVE TrimStart(_)
TrimStart(s) == IF s # <<>> /\ Head(s) = " " THEN TrimStart(Tail(s)) ELSE s

RECURSIVE TrimEnd(_)
TrimEnd(s) ==
    IF s # <<>> /\ s[Len(s)] = " " THEN TrimEnd(SubSeq(s, 1, Len(s) - 1)) ELSE s

\* String.prototype.trim
Trim(s) == TrimEnd(TrimStart(s))

NoKeys == [s \in ExternalServiceName |-> <<>>]

\* the notifications of the store: an id and the key of its i18n props
NotifIds == 1..MaxNotif
NotifKeyCycle == <<TRADE_LOCATION_ETHEREUM, TRADE_LOCATION_OPTIMISM, "none">>
NotifKey(id) == NotifKeyCycle[((id - 1) % 3) + 1]

\* the store's getter `prioritized`: the notifications, the newest (highest id) first
prioritized(data) == Descending(data)

ES_none == [op |-> "none"]

\* updateKeys: the displayed keys become the keys of the response
updateKeys(response) == ES_keys' = response

\* prioritized.find(data => data.i18nParam?.props?.key === location)
ES_findPrioritized(location) ==
    LET hits == {i \in DOMAIN ES_prioritized : NotifKey(ES_prioritized[i]) = location}
    IN IF hits = {} THEN 0
       ELSE ES_prioritized[CHOOSE i \in hits : \A j \in hits : i <= j]

\* the notification store's remove(id)
removeNotification(id) == ES_notifData' = ES_notifData \ {id}

removeEtherscanNotification(location) ==
    LET notification == ES_findPrioritized(location)
    IN IF notification = 0
       THEN UNCHANGED ES_notifData
       ELSE removeNotification(notification)

\* the branches of save() on the service name
EtherscanLocation(serviceName) ==
    CASE serviceName = "etherscan" -> TRADE_LOCATION_ETHEREUM
      [] serviceName = "optimism_etherscan" -> TRADE_LOCATION_OPTIMISM
      [] OTHER -> "none"

\* set(loading, false) as the last statement of a handler
ES_finish(i, failed) ==
    /\ ES_loading' = FALSE
    /\ ES_calls' = End(ES_calls, i)
    /\ ES_last' = [op |-> ES_calls[i].op, failed |-> failed, service |-> ES_calls[i].name]

ES_Init ==
    /\ ES_loading = FALSE
    /\ ES_keys = NoKeys
    /\ ES_backend \in {NoKeys, [NoKeys EXCEPT !["etherscan"] = <<"a">>]}
    /\ ES_calls = [i \in 1..ES_MaxCalls |-> Idle]
    /\ ES_message = ES_none
    /\ ES_notifData \in SUBSET NotifIds
    /\ ES_prioritized = prioritized(ES_notifData)
    /\ ES_mounted = FALSE
    /\ ES_last = ES_none

\* onMounted up to its await
ES_onMounted ==
    /\ ~ES_mounted
    /\ ES_mounted' = TRUE
    /\ ES_loading' = TRUE
    /\ ES_calls' = Start(ES_calls, [op |-> "mount", name |-> "none"])
    /\ UNCHANGED ES_others
    /\ UNCHANGED <<ES_keys, ES_backend, ES_message, ES_notifData, ES_prioritized, ES_last>>

\* queryExternalServices resolved: the rest of the hook
ES_onMountedResolved(i) ==
    /\ ES_calls[i].op = "mount"
    /\ updateKeys(ES_backend)
    /\ ES_finish(i, FALSE)
    /\ UNCHANGED ES_others
    /\ UNCHANGED <<ES_backend, ES_message, ES_notifData, ES_prioritized, ES_mounted>>

\* queryExternalServices rejected: the hook has no try, so the rejection leaves it
\* at the await and nothing after the await runs
ES_onMountedRejected(i) ==
    /\ ES_calls[i].op = "mount"
    /\ ES_calls' = End(ES_calls, i)
    /\ ES_last' = [op |-> "mount", failed |-> TRUE, service |-> "none"]
    /\ UNCHANGED ES_others
    /\ UNCHANGED <<ES_loading, ES_keys, ES_backend, ES_message, ES_notifData,
                   ES_prioritized, ES_mounted>>

\* save(serviceName, key) up to its await
ES_save(serviceName, key) ==
    LET c == [op |-> "save", name |-> serviceName, apiKey |-> Trim(key)]
    IN /\ ES_mounted
       /\ HasFree(ES_calls)
       /\ ES_loading' = TRUE
       /\ ES_calls' = Start(ES_calls, c)
       /\ UNCHANGED ES_others
    /\ UNCHANGED <<ES_keys, ES_backend, ES_message, ES_notifData, ES_prioritized,
                      ES_mounted, ES_last>>

\* setExternalServices resolved: the try block after the await
ES_saveResolved(i) ==
    /\ ES_calls[i].op = "save"
    /\ LET stored == [ES_backend EXCEPT ![ES_calls[i].name] = ES_calls[i].apiKey]
       IN /\ ES_backend' = stored
          /\ updateKeys(stored)
    /\ ES_message' = [op |-> "save", success |-> TRUE]
    /\ IF ES_calls[i].name = "loopring"
       THEN \* await fetchLoopringBalances(true)
            /\ ES_calls' = Become(ES_calls, i, [op |-> "loopring", name |-> "loopring"])
            /\ UNCHANGED <<ES_loading, ES_notifData, ES_last>>
       ELSE /\ IF EtherscanLocation(ES_calls[i].name) # "none"
               THEN removeEtherscanNotification(EtherscanLocation(ES_calls[i].name))
               ELSE UNCHANGED ES_notifData
            /\ ES_finish(i, FALSE)
    /\ UNCHANGED ES_others
    /\ UNCHANGED <<ES_prioritized, ES_mounted>>

\* setExternalServices rejected: the catch block
ES_saveRejected(i) ==
    /\ ES_calls[i].op = "save"
    /\ ES_message' = [op |-> "save", success |-> FALSE]
    /\ ES_finish(i, TRUE)
    /\ UNCHANGED ES_others
    /\ UNCHANGED <<ES_keys, ES_backend, ES_notifData, ES_prioritized, ES_mounted>>

\* fetchLoopringBalances settled: it resolves, or it rejects into the catch block
ES_saveLoopringSettled(i, rejected) ==
    /\ ES_calls[i].op = "loopring"
    /\ ES_message' = IF rejected THEN [op |-> "save", success |-> FALSE] ELSE ES_message
    /\ ES_loading' = FALSE
    /\ ES_calls' = End(ES_calls, i)
    /\ ES_last' = [op |-> "save", failed |-> rejected, service |-> "loopring"]
    /\ UNCHANGED ES_others
    /\ UNCHANGED <<ES_keys, ES_backend, ES_notifData, ES_prioritized, ES_mounted>>

\* confirm(service), the confirmed deletion of a key, up to its await
ES_confirm(service) ==
    LET c == [op |-> "delete", name |-> service]
    IN /\ ES_mounted
       /\ HasFree(ES_calls)
       /\ ES_loading' = TRUE
       /\ ES_calls' = Start(ES_calls, c)
       /\ UNCHANGED ES_others
    /\ UNCHANGED <<ES_keys, ES_backend, ES_message, ES_notifData, ES_prioritized,
                      ES_mounted, ES_last>>

\* deleteExternalServices resolved
ES_confirmResolved(i) ==
    /\ ES_calls[i].op = "delete"
    /\ LET stored == [ES_backend EXCEPT ![ES_calls[i].name] = <<>>]
       IN /\ ES_backend' = stored
          /\ updateKeys(stored)
    /\ ES_finish(i, FALSE)
    /\ UNCHANGED ES_others
    /\ UNCHANGED <<ES_message, ES_notifData, ES_prioritized, ES_mounted>>

\* deleteExternalServices rejected: the catch block
ES_confirmRejected(i) ==
    /\ ES_calls[i].op = "delete"
    /\ ES_message' = [op |-> "delete", success |-> FALSE]
    /\ ES_finish(i, TRUE)
    /\ UNCHANGED ES_others
    /\ UNCHANGED <<ES_keys, ES_backend, ES_notifData, ES_prioritized, ES_mounted>>

\* the notification store receives a notification (a message of the backend)
ES_notify(id) ==
    /\ id \notin ES_notifData
    /\ ES_notifData' = ES_notifData \cup {id}
    /\ UNCHANGED ES_others
    /\ UNCHANGED <<ES_loading, ES_keys, ES_backend, ES_calls, ES_message,
                   ES_prioritized, ES_mounted, ES_last>>

\* the user dismisses a notification in the notification sidebar
ES_dismiss(id) ==
    /\ id \in ES_notifData
    /\ ES_notifData' = ES_notifData \ {id}
    /\ UNCHANGED ES_others
    /\ UNCHANGED <<ES_loading, ES_keys, ES_backend, ES_calls, ES_message,
                   ES_prioritized, ES_mounted, ES_last>>

ES_Next ==
    \/ ES_onMounted
    \/ \E i \in DOMAIN ES_calls : ES_onMountedResolved(i)
    \/ \E i \in DOMAIN ES_calls : ES_onMountedRejected(i)
    \/ \E s \in ExternalServiceName, k \in ApiKeyInputs : ES_save(s, k)
    \/ \E i \in DOMAIN ES_calls : ES_saveResolved(i)
    \/ \E i \in DOMAIN ES_calls : ES_saveRejected(i)
    \/ \E i \in DOMAIN ES_calls, r \in BOOLEAN : ES_saveLoopringSettled(i, r)
    \/ \E s \in ExternalServiceName : ES_confirm(s)
    \/ \E i \in DOMAIN ES_calls : ES_confirmResolved(i)
    \/ \E i \in DOMAIN ES_calls : ES_confirmRejected(i)
    \/ \E id \in NotifIds : ES_notify(id)
    \/ \E id \in NotifIds : ES_dismiss(id)

\* a handler returned (or was left at its await by a rejection) in this step
ES_returned == Cardinality(Busy(ES_calls')) < Cardinality(Busy(ES_calls))

\* C1: every backend call of the page (the key query of the mounted hook, the save
\* and the delete of a key) that fails is reported through a failure message of
\* that operation, and `loading` is false when the call has finished, whether it
\* succeeded or failed.
C1_FailureReportedAndLoadingReset ==
    [][ES_returned =>
         /\ ES_loading' = FALSE
         /\ ES_last'.failed => ES_message' = [op |-> ES_last'.op, success |-> FALSE]]_vars

\* C7: a successful save of an etherscan key removes the notification that the
\* store's prioritized list holds first for that chain's location, and nothing
\* else; a failed save, a save of another service and a save with no such
\* notification in the store remove nothing.
C7_EtherscanNotificationRemoved ==
    [][(ES_returned /\ ES_last'.op = "save") =>
         LET location == EtherscanLocation(ES_last'.service)
             current == prioritized(ES_notifData)
             hits == {i \in DOMAIN current : NotifKey(current[i]) = location}
         IN IF ES_last'.failed \/ location = "none" \/ hits = {}
            THEN ES_notifData' = ES_notifData
            ELSE ES_notifData' =
                   ES_notifData \ {current[CHOOSE i \in hits : \A j \in hits : i <= j]}]_vars

\* the page is not open
ES_Fixed ==
    /\ ES_loading = FALSE /\ ES_keys = NoKeys /\ ES_backend = NoKeys
    /\ ES_calls = [i \in 1..ES_MaxCalls |-> Idle] /\ ES_message = ES_none
    /\ ES_notifData = {} /\ ES_prioritized = <<>>
    /\ ES_mounted = FALSE /\ ES_last = ES_none

(***************************************************************************)
(* Snapshot edit dialog                                                    *)
(***************************************************************************)
\* the lists of the model are lists of usd values: what the balances table and the
\* location data table emit ...
SN_BalanceLists == {<<1>>, <<2>>}
SN_LocationLists == {<<1, 2>>, <<2, 1>>}
SN_Snapshots ==
    [balancesSnapshot : SN_BalanceLists, locationDataSnapshot : SN_LocationLists]

SN_null == [null |-> TRUE]
SN_none == [ret |-> "none", called |-> FALSE, tick |-> 0]
\* no save() has been issued
SN_noSave == [payload |-> SN_null, overlap |-> FALSE, ok |-> TRUE]

RECURSIVE InsertDesc(_, _)
InsertDesc(x, s) ==
    IF s = <<>> THEN <<x>>
    ELSE IF Head(s) >= x THEN <<Head(s)>> \o InsertDesc(x, Tail(s))
         ELSE <<x>> \o s

RECURSIVE SortDescSeq(_)
\* Array.prototype.sort((a, b) => sortDesc(a.usdValue, b.usdValue)): stable
SortDescSeq(s) ==
    IF s = <<>> THEN <<>>
    ELSE InsertDesc(s[Len(s)], SortDescSeq(SubSeq(s, 1, Len(s) - 1)))

\* fetchSnapshotData after its await: both lists sorted, then stored in snapshotData
fetchSnapshotData(result) ==
    SN_snapshotData' =
        [balancesSnapshot |-> SortDescSeq(result.balancesSnapshot),
         locationDataSnapshot |-> SortDescSeq(result.locationDataSnapshot)]

\* updateLocationDataSnapshot: the list replaced, the balances kept (or empty)
updateLocationDataSnapshot(data, locationDataSnapshot) ==
    [balancesSnapshot |-> IF data = SN_null THEN <<>> ELSE data.balancesSnapshot,
     locationDataSnapshot |-> locationDataSnapshot]

\* a save that raises no notification when the update failed
C2_notifyErrorSilent == UNCHANGED SN_notifications

\* notifyError: one notification in the notification store
notifyError == SN_notifications' = SN_notifications + 1

\* a save() returned `ret`; `called` tells whether it had called the backend
SN_saveReturned(ret, called) ==
    SN_last' = [ret |-> ret, called |-> called, tick |-> 1 - SN_last.tick]

SN_Init ==
    /\ SN_snapshotData = SN_null
    /\ SN_backend \in SN_Snapshots
    /\ SN_calls = Start([i \in 1..SN_MaxCalls |-> Idle], [op |-> "fetch", by |-> "mount"])
    /\ SN_notifications = 0
    /\ SN_emitted = FALSE
    /\ SN_last = SN_none
    /\ SN_issued = SN_noSave

\* the backend answers a getSnapshotData request: the stored snapshot, or an error
SN_backendGet(i, ok) ==
    /\ SN_calls[i].op = "fetch"
    /\ SN_calls' = Become(SN_calls, i,
                          [op |-> "fetched", by |-> SN_calls[i].by,
                           result |-> IF ok THEN SN_backend ELSE SN_null])
    /\ UNCHANGED <<SN_snapshotData, SN_backend, SN_notifications, SN_emitted, SN_last,
                   SN_issued>>
    /\ UNCHANGED SN_others

\* the backend answers an updateSnapshotData request: it stores the payload and
\* answers true, or it answers false or with an error and stores nothing
SN_backendUpdate(i, outcome) ==
    /\ SN_calls[i].op = "update"
    /\ SN_backend' = IF outcome = "true" THEN SN_calls[i].payload ELSE SN_backend
    /\ SN_calls' = Become(SN_calls, i,
                          [op |-> "updated", by |-> SN_calls[i].by, result |-> outcome])
    /\ UNCHANGED <<SN_snapshotData, SN_notifications, SN_emitted, SN_last, SN_issued>>
    /\ UNCHANGED SN_others

\* onMounted after the await of fetchSnapshotData; a rejection ends the hook
SN_onMounted(i) ==
    /\ SN_calls[i].op = "fetched" /\ SN_calls[i].by = "mount"
    /\ IF SN_calls[i].result = SN_null
       THEN UNCHANGED SN_snapshotData
       ELSE fetchSnapshotData(SN_calls[i].result)
    /\ SN_calls' = End(SN_calls, i)
    /\ UNCHANGED <<SN_backend, SN_notifications, SN_emitted, SN_last, SN_issued>>
    /\ UNCHANGED SN_others

\* the slots of the save() calls that have not returned
SN_saving ==
    {i \in DOMAIN SN_calls :
        SN_calls[i].op \in {"update", "updated", "fetch", "fetched"} /\ SN_calls[i].by # "mount"}

\* save() up to its first await, on the snapshot `data`; `by`: "save" for a save()
\* of the template, "finish" for the save() of finish()
save(data, by) ==
    IF data = SN_null
    THEN /\ SN_saveReturned("false", FALSE)
         /\ UNCHANGED <<SN_calls, SN_backend, SN_notifications, SN_emitted, SN_issued>>
    ELSE /\ HasFree(SN_calls)
         /\ SN_calls' = Start(SN_calls, [op |-> "update", by |-> by, payload |-> data])
         /\ SN_issued' = IF SN_saving = {}
                         THEN [payload |-> data, overlap |-> FALSE, ok |-> TRUE]
                         ELSE [SN_issued EXCEPT !.payload = data, !.overlap = TRUE]
         /\ UNCHANGED <<SN_backend, SN_notifications, SN_emitted, SN_last>>

\* @input="save()" of the balances table, whose v-model has stored `data`; while
\* the snapshot is not loaded there is no table and save() finds no snapshot
SN_inputSave(data) ==
    /\ IF SN_snapshotData = SN_null THEN data = SN_null ELSE data \in SN_Snapshots
    /\ SN_snapshotData' = data
    /\ save(data, "save")
    /\ UNCHANGED SN_others

\* updateAndSave(event)
updateAndSave(event) ==
    /\ SN_snapshotData # SN_null
    /\ LET data == updateLocationDataSnapshot(SN_snapshotData, event)
       IN /\ SN_snapshotData' = data
          /\ save(data, "save")
    /\ UNCHANGED SN_others

\* updateAndComplete(event)
updateAndComplete(event) ==
    /\ SN_snapshotData # SN_null
    /\ LET data == updateLocationDataSnapshot(SN_snapshotData, event)
       IN /\ SN_snapshotData' = data
          /\ save(data, "finish")
    /\ UNCHANGED SN_others

\* save() after the await of updateSnapshotData: the try/catch and `if (result)`
SN_saveUpdated(i) ==
    /\ SN_calls[i].op = "updated"
    /\ IF SN_calls[i].result = "true"
       THEN \* await fetchSnapshotData()
            /\ SN_calls' = Become(SN_calls, i, [op |-> "fetch", by |-> SN_calls[i].by])
            /\ UNCHANGED <<SN_notifications, SN_last, SN_issued>>
       ELSE \* notifyError() or notifyError(e); return result
            /\ SN_notifications < SN_MaxNotifications
            /\ notifyError
            /\ SN_saveReturned("false", TRUE)
            /\ SN_issued' = [SN_issued EXCEPT !.ok = FALSE]
            /\ SN_calls' = End(SN_calls, i)
    /\ UNCHANGED <<SN_snapshotData, SN_backend, SN_emitted>>
    /\ UNCHANGED SN_others

\* save() after the await of its fetchSnapshotData: it returns true, and finish()
\* goes on to await fetchNetValue(); a rejected fetch rejects save() and finish()
SN_saveFetched(i) ==
    /\ SN_calls[i].op = "fetched" /\ SN_calls[i].by # "mount"
    /\ IF SN_calls[i].result = SN_null
       THEN /\ SN_saveReturned("rejected", TRUE)
            /\ SN_issued' = [SN_issued EXCEPT !.ok = FALSE]
            /\ SN_calls' = End(SN_calls, i)
            /\ UNCHANGED SN_snapshotData
       ELSE /\ fetchSnapshotData(SN_calls[i].result)
            /\ SN_saveReturned("true", TRUE)
            /\ UNCHANGED SN_issued
            /\ SN_calls' = IF SN_calls[i].by = "finish"
                           THEN Become(SN_calls, i, [op |-> "netvalue"])
                           ELSE End(SN_calls, i)
    /\ UNCHANGED <<SN_backend, SN_notifications, SN_emitted>>
    /\ UNCHANGED SN_others

\* finish() after the await of fetchNetValue: emit('finish') when it resolved
finish(i, resolved) ==
    /\ SN_calls[i].op = "netvalue"
    /\ SN_emitted' = (SN_emitted \/ resolved)
    /\ SN_calls' = End(SN_calls, i)
    /\ UNCHANGED <<SN_snapshotData, SN_backend, SN_notifications, SN_last, SN_issued>>
    /\ UNCHANGED SN_others

\* the user dismisses a notification
SN_dismiss ==
    /\ SN_notifications > 0
    /\ SN_notifications' = SN_notifications - 1
    /\ UNCHANGED <<SN_snapshotData, SN_backend, SN_calls, SN_emitted, SN_last, SN_issued>>
    /\ UNCHANGED SN_others

SN_Next ==
    \/ \E i \in DOMAIN SN_calls, ok \in BOOLEAN : SN_backendGet(i, ok)
    \/ \E i \in DOMAIN SN_calls, o \in {"true", "false", "throw"} : SN_backendUpdate(i, o)
    \/ \E i \in DOMAIN SN_calls : SN_onMounted(i)
    \/ \E d \in SN_Snapshots \cup {SN_null} : SN_inputSave(d)
    \/ \E e \in SN_LocationLists : updateAndSave(e)
    \/ \E e \in SN_LocationLists : updateAndComplete(e)
    \/ \E i \in DOMAIN SN_calls : SN_saveUpdated(i)
    \/ \E i \in DOMAIN SN_calls : SN_saveFetched(i)
    \/ \E i \in DOMAIN SN_calls, r \in BOOLEAN : finish(i, r)
    \/ SN_dismiss

\* the slot whose handler ran in this step
SN_ran(i) == SN_calls'[i] # SN_calls[i]
SN_returns == SN_last'.tick # SN_last.tick

\* C2: save() of the snapshot edit dialog. When updateSnapshotData returned false
\* or threw, exactly one notification is raised, save returns false, snapshotData
\* is unchanged and no refetch is made; when it returned true the snapshot is
\* refetched before save returns true; with no snapshot loaded save returns false
\* without calling the backend; 'finish' is emitted only by a finish() whose save
\* succeeded.
C2_SaveContract ==
    [][/\ \A i \in DOMAIN SN_calls :
            (SN_calls[i].op = "updated" /\ SN_ran(i)) =>
               IF SN_calls[i].result = "true"
               THEN SN_calls'[i].op = "fetch" /\ ~SN_returns
               ELSE /\ SN_notifications' = SN_notifications + 1
                    /\ SN_returns /\ SN_last'.ret = "false"
                    /\ SN_snapshotData' = SN_snapshotData
                    /\ SN_calls'[i] = Idle
       /\ (SN_returns /\ SN_last'.ret = "true") =>
             \E i \in DOMAIN SN_calls :
                /\ SN_calls[i].op = "fetched" /\ SN_ran(i)
                /\ SN_calls[i].result # SN_null
                /\ SN_snapshotData'.balancesSnapshot =
                      SortDescSeq(SN_calls[i].result.balancesSnapshot)
                /\ SN_snapshotData'.locationDataSnapshot =
                      SortDescSeq(SN_calls[i].result.locationDataSnapshot)
       /\ (SN_snapshotData' = SN_null /\ SN_returns) =>
             /\ SN_last'.ret = "false" /\ ~SN_last'.called
             /\ UNCHANGED <<SN_calls, SN_backend, SN_notifications>>
       /\ (SN_emitted' # SN_emitted) =>
             \E i \in DOMAIN SN_calls : SN_calls[i].op = "netvalue" /\ SN_ran(i)]_vars

\* a save has failed with its one notification after a finish() has emitted
C2_Witness ==
    /\ SN_emitted
    /\ SN_last.ret = "false" /\ SN_last.called
    /\ SN_notifications = 1

\* C16: when two save() calls overlapped and every update and refetch of them has
\* completed successfully, snapshotData equals the snapshot stored by the backend, and
\* that snapshot is the one of the last save issued, which holds every local edit
\* made before it.
C16_OverlappingSaves ==
    (SN_issued.overlap /\ SN_issued.ok /\ SN_saving = {}) =>
        /\ SN_backend = SN_issued.payload
        /\ SN_snapshotData =
              [balancesSnapshot |-> SortDescSeq(SN_backend.balancesSnapshot),
               locationDataSnapshot |-> SortDescSeq(SN_backend.locationDataSnapshot)]

SN_Fixed ==
    /\ SN_snapshotData = SN_null /\ SN_backend = [balancesSnapshot |-> <<1>>,
                                                  locationDataSnapshot |-> <<1, 2>>]
    /\ SN_calls = [i \in 1..SN_MaxCalls |-> Idle] /\ SN_notifications = 0
    /\ SN_emitted = FALSE /\ SN_last = SN_none /\ SN_issued = SN_noSave

(***************************************************************************)
(* History events view: the periodic refetch                               *)
(***************************************************************************)
HE_Refs == {"sectionLoading", "eventTaskLoading", "onlineHistoryEventsLoading",
            "isQueryingTxsFinished", "isQueryingOnlineEventsFinished"}

\* refreshing = logicOr(sectionLoading, eventTaskLoading, onlineHistoryEventsLoading)
refreshing(st) ==
    st["sectionLoading"] \/ st["eventTaskLoading"] \/ st["onlineHistoryEventsLoading"]

\* querying = not(logicOr(isQueryingTxsFinished, isQueryingOnlineEventsFinished))
querying(st) == ~(st["isQueryingTxsFinished"] \/ st["isQueryingOnlineEventsFinished"])

shouldFetchEventsRegularly(st) == querying(st) \/ refreshing(st)

\* useIntervalFn(cb, 20000) with its default options starts the interval at once
useIntervalFn == TRUE

\* the callback of watch(shouldFetchEventsRegularly): the value of isActive after it
HE_watch(should, active) ==
    IF should /\ ~active THEN TRUE          \* resume()
    ELSE IF ~should /\ active THEN FALSE    \* pause()
    ELSE active

HE_Init ==
    /\ HE_status \in [HE_Refs -> BOOLEAN]
    /\ HE_phase = "setup"
    /\ HE_isActive = useIntervalFn
    /\ HE_ticks = 0

\* the mounted hook
HE_onMounted ==
    /\ HE_phase = "setup"
    /\ HE_phase' = "mounted"
    /\ UNCHANGED <<HE_status, HE_isActive, HE_ticks>>
    /\ UNCHANGED HE_others

\* a ref of the stores changes; while the component lives, the watcher runs when
\* the computed value has changed
HE_statusChange(r) ==
    /\ HE_status' = [HE_status EXCEPT ![r] = ~@]
    /\ HE_isActive' =
         IF /\ HE_phase # "unmounted"
            /\ shouldFetchEventsRegularly(HE_status') # shouldFetchEventsRegularly(HE_status)
         THEN HE_watch(shouldFetchEventsRegularly(HE_status'), HE_isActive)
         ELSE HE_isActive
    /\ UNCHANGED <<HE_phase, HE_ticks>>
    /\ UNCHANGED HE_others

\* the interval elapses: fetchData() and fetchAssociatedLocations()
HE_interval ==
    /\ HE_isActive
    /\ HE_ticks < HE_MaxTicks
    /\ HE_ticks' = HE_ticks + 1
    /\ UNCHANGED <<HE_status, HE_phase, HE_isActive>>
    /\ UNCHANGED HE_others

\* onUnmounted: pause(); the watchers of the component have been stopped
HE_onUnmounted ==
    /\ HE_phase = "mounted"
    /\ HE_phase' = "unmounted"
    /\ HE_isActive' = FALSE
    /\ UNCHANGED <<HE_status, HE_ticks>>
    /\ UNCHANGED HE_others

HE_Next ==
    \/ HE_onMounted
    \/ \E r \in HE_Refs : HE_statusChange(r)
    \/ HE_interval
    \/ HE_onUnmounted

\* C3: from mount onward the refetch timer is active exactly while
\* shouldFetchEventsRegularly is true, and it is never active after the unmount.
C3_TimerFollowsCondition ==
    /\ HE_phase = "mounted" => (HE_isActive <=> shouldFetchEventsRegularly(HE_status))
    /\ HE_phase = "unmounted" => ~HE_isActive

\* the view is not open
HE_Fixed ==
    /\ HE_status = [r \in HE_Refs |-> FALSE] /\ HE_phase = "setup"
    /\ HE_isActive = FALSE /\ HE_ticks = 0

(***************************************************************************)
(* Table filter                                                            *)
(***************************************************************************)
\* strings are sequences of characters; a value of a suggestion is a string or an
\* asset object
Str(s) == [str |-> s]
Asset(id) == [identifier |-> id]
IsString(v) == "str" \in DOMAIN v

TF_Strings == {<<>>, <<"a">>, <<"b">>, <<"!", "a">>}
TF_Values == {Str(s) : s \in TF_Strings} \cup {Asset(<<"a">>)}

\* the prop `matchers`: an asset matcher, string matchers with and without a
\* serializer, a multiple matcher that allows exclusion and a free-text matcher that
\* has no keyValue
TF_matchers ==
    << [key |-> "asset", keyValue |-> "asset", kind |-> "asset", multiple |-> FALSE,
        valid |-> {}, serializer |-> FALSE],
       [key |-> "action", keyValue |-> "action", kind |-> "string", multiple |-> FALSE,
        valid |-> {<<"a">>, <<"b">>}, serializer |-> FALSE],
       [key |-> "start", keyValue |-> "fromTimestamp", kind |-> "string",
        multiple |-> FALSE, valid |-> {<<"a">>}, serializer |-> TRUE],
       [key |-> "location", keyValue |-> "location", kind |-> "string",
        multiple |-> TRUE, valid |-> {<<"a">>, <<"b">>}, serializer |-> FALSE],
       [key |-> "notes", keyValue |-> "", kind |-> "string", multiple |-> FALSE,
        valid |-> TF_Strings, serializer |-> FALSE] >>

TF_Keys == {TF_matchers[i].key : i \in DOMAIN TF_matchers} \cup {"unknown"}
TF_Suggestions == [key : TF_Keys, value : TF_Values, exclude : BOOLEAN]

NoMatcher == [key |-> "", keyValue |-> "", kind |-> "none", multiple |-> FALSE,
              valid |-> {}, serializer |-> FALSE]

\* Array.prototype.find over the matchers
TF_find(hits) ==
    IF hits = {} THEN NoMatcher
    ELSE TF_matchers[CHOOSE i \in hits : \A j \in hits : i <= j]

matcherForKey(searchKey) ==
    TF_find({i \in DOMAIN TF_matchers : TF_matchers[i].key = searchKey})

\* a matcher without keyValue has keyValue undefined, which equals no key
matcherForKeyValue(searchKey) ==
    TF_find({i \in DOMAIN TF_matchers :
                TF_matchers[i].keyValue # "" /\ TF_matchers[i].keyValue = searchKey})

\* the serializer and the deserializer of the `start` matcher: a date and its timestamp
serializer(s) == IF s = <<"a">> THEN <<"b">> ELSE <<>>
deserializer(s) == IF s = <<"b">> THEN <<"a">> ELSE <<>>

\* the asset deserializer: the asset of an identifier, when there is one
assetDeserializer(id) == IF id = <<"a">> THEN Asset(id) ELSE Str(<<>>)

\* an assoc list in insertion order stands for the object `matched`
MatchedKeys(matched) == {matched[i].key : i \in DOMAIN matched}
MatchedIndex(matched, k) == CHOOSE i \in DOMAIN matched : matched[i].key = k
MatchedGet(matched, k) == matched[MatchedIndex(matched, k)].value
Single(s) == [single |-> s]
Many(l) == [many |-> l]

\* lines 79-101 of updateMatches: the transformed keyword of an entry, <<>> when the
\* entry is skipped
transformedKeyword(entry, matcher) ==
    IF matcher.kind = "none" THEN <<>>
    ELSE IF matcher.kind = "string"
    THEN IF ~IsString(entry.value) THEN <<>>
         ELSE IF entry.value.str \in matcher.valid
         THEN LET serialized == IF matcher.serializer THEN serializer(entry.value.str)
                                ELSE <<>>
                  keyword == IF serialized # <<>> THEN serialized ELSE entry.value.str
              IN IF entry.exclude THEN <<"!">> \o keyword ELSE keyword
         ELSE <<>>
    ELSE IF matcher.kind = "asset"
    THEN IF IsString(entry.value) THEN entry.value.str ELSE entry.value.identifier
    ELSE <<>>

\* an updateMatches that keeps one value for a `multiple` matcher as well
C4_putSingle(matched, matcher, keyword) ==
    LET valueKey == IF matcher.keyValue # "" THEN matcher.keyValue ELSE matcher.key
    IN IF valueKey \in MatchedKeys(matched)
       THEN [matched EXCEPT ![MatchedIndex(matched, valueKey)].value = Single(keyword)]
       ELSE Append(matched, [key |-> valueKey, value |-> Single(keyword)])

\* lines 105-112 of updateMatches
TF_put(matched, matcher, keyword) ==
    LET valueKey == IF matcher.keyValue # "" THEN matcher.keyValue ELSE matcher.key
    IN IF valueKey \in MatchedKeys(matched)
       THEN [matched EXCEPT ![MatchedIndex(matched, valueKey)].value =
                IF matcher.multiple THEN Many(Append(@.many, keyword)) ELSE Single(keyword)]
       ELSE Append(matched, [key |-> valueKey,
                             value |-> IF matcher.multiple THEN Many(<<keyword>>)
                                       ELSE Single(keyword)])

RECURSIVE updateMatches(_)
\* the loop of updateMatches: <<matched, validPairs>>
updateMatches(pairs) ==
    IF pairs = <<>> THEN <<(<<>>), (<<>>)>>
    ELSE LET n == Len(pairs)
             before == updateMatches(SubSeq(pairs, 1, n - 1))
             entry == pairs[n]
             matcher == matcherForKey(entry.key)
             keyword == transformedKeyword(entry, matcher)
         IN IF keyword = <<>> THEN before
            ELSE <<TF_put(before[1], matcher, keyword), Append(before[2], entry)>>

\* the inner loop body of restoreSelection for one value of a matcher
TF_restoreValue(found, value, oldSelection) ==
    LET asset == found.kind = "asset"
        prev == {i \in DOMAIN oldSelection : oldSelection[i].key = found.key}
        fromPrev == asset /\ prev # {}
        exclude == ~fromPrev /\ ~asset /\ value # <<>> /\ Head(value) = "!"
        normalizedValue == IF exclude THEN Tail(value) ELSE value
        deserialized ==
            IF asset THEN assetDeserializer(normalizedValue)
            ELSE IF found.serializer THEN Str(deserializer(normalizedValue))
            ELSE Str(<<>>)
        usable == IF IsString(deserialized) THEN deserialized.str # <<>> ELSE TRUE
    IN [key |-> found.key,
        value |-> IF fromPrev
                  THEN oldSelection[CHOOSE i \in prev : \A j \in prev : i <= j].value
                  ELSE IF usable THEN deserialized ELSE Str(normalizedValue),
        exclude |-> exclude]

RECURSIVE TF_restoreValues(_, _, _)
TF_restoreValues(found, values, oldSelection) ==
    IF values = <<>> THEN <<>>
    ELSE <<TF_restoreValue(found, Head(values), oldSelection)>>
           \o TF_restoreValues(found, Tail(values), oldSelection)

RECURSIVE restoreSelection(_, _)
\* restoreSelection(matches): the new selection, given the old one
restoreSelection(matches, oldSelection) ==
    IF matches = <<>> THEN <<>>
    ELSE LET found == matcherForKeyValue(Head(matches).key)
             value == Head(matches).value
             values == IF "single" \in DOMAIN value THEN <<value.single>> ELSE value.many
             rest == restoreSelection(Tail(matches), oldSelection)
         IN IF found.kind = "none" \/ values = <<>> \/ values = <<(<<>>)>>
            THEN rest
            ELSE TF_restoreValues(found, values, oldSelection) \o rest

TF_Inputs == UNION {[1..n -> TF_Suggestions] : n \in 0..TF_MaxPairs}

\* the filter is mounted with no matches; the user's next input is any array
TF_Init ==
    /\ TF_selection = <<>>
    /\ TF_pairs \in TF_Inputs
    /\ TF_emitted = <<>>
    /\ TF_phase = "input"

\* @input of the combobox and @update:matches of the saved filters: updateMatches
TF_updateMatches ==
    /\ TF_phase = "input"
    /\ TF_selection' = updateMatches(TF_pairs)[2]
    /\ TF_emitted' = updateMatches(TF_pairs)[1]
    /\ TF_phase' = "emitted"
    /\ UNCHANGED TF_pairs
    /\ UNCHANGED TF_others

\* the parent passes the payload down as `matches`; watch(matches) restores the selection
TF_watchMatches ==
    /\ TF_phase = "emitted"
    /\ TF_selection' = restoreSelection(TF_emitted, TF_selection)
    /\ TF_phase' = "restored"
    /\ UNCHANGED <<TF_pairs, TF_emitted>>
    /\ UNCHANGED TF_others

TF_Next ==
    \/ TF_updateMatches
    \/ TF_watchMatches

\* the matcher of an entry, its emitted key and its emitted value, as C4 states them
C4_Matchers(k) == {i \in DOMAIN TF_matchers : TF_matchers[i].key = k}
C4_ValueKey(m) == IF m.keyValue = "" THEN m.key ELSE m.keyValue
C4_Value(entry, m) ==
    IF m.kind = "asset"
    THEN IF IsString(entry.value) THEN entry.value.str ELSE entry.value.identifier
    ELSE (IF entry.exclude THEN <<"!">> ELSE <<>>)
         \o (IF m.serializer /\ serializer(entry.value.str) # <<>>
             THEN serializer(entry.value.str) ELSE entry.value.str)
C4_Kept(entry) ==
    \E i \in C4_Matchers(entry.key) :
        LET m == TF_matchers[i]
        IN /\ m.kind = "string" => (IsString(entry.value) /\ entry.value.str \in m.valid)
           /\ C4_Value(entry, m) # <<>>
C4_KeptOf(m) == SelectSeq(TF_pairs, LAMBDA e : e.key = m.key /\ C4_Kept(e))

\* C4: once updateMatches(pairs) ran, the stored selection is the pairs that have a
\* matcher, pass a string matcher's validate with a string value and have a non-empty
\* transformed value; the emitted object has exactly the keyValue (or key) of the
\* matchers with such a pair as keys; a `multiple` matcher maps to the list of its
\* values in selection order, any other matcher to a single one of its values.
C4_EmittedMatches ==
    TF_phase # "input" =>
        /\ TF_phase = "emitted" => TF_selection = SelectSeq(TF_pairs, C4_Kept)
        /\ Cardinality(MatchedKeys(TF_emitted)) = Len(TF_emitted)
        /\ MatchedKeys(TF_emitted) =
              {C4_ValueKey(TF_matchers[i]) :
                  i \in {j \in DOMAIN TF_matchers : C4_KeptOf(TF_matchers[j]) # <<>>}}
        /\ \A i \in DOMAIN TF_matchers :
              LET m == TF_matchers[i]
                  kept == C4_KeptOf(m)
              IN kept # <<>> =>
                   LET value == MatchedGet(TF_emitted, C4_ValueKey(m))
                   IN IF m.multiple
                      THEN value = Many([j \in DOMAIN kept |-> C4_Value(kept[j], m)])
                      ELSE \E j \in DOMAIN kept : value = Single(C4_Value(kept[j], m))

\* a pair was dropped and a `multiple` matcher received a list
C4_Witness ==
    /\ TF_phase = "emitted"
    /\ TF_selection # <<>>
    /\ Len(TF_selection) < Len(TF_pairs)
    /\ \E i \in DOMAIN TF_emitted : "many" \in DOMAIN TF_emitted[i].value

EntrySet(selection) == {selection[i] : i \in DOMAIN selection}

\* the selections C6 speaks of: every entry is kept by a string matcher, and a key
\* that is not `multiple` has at most one entry
C6_Selection(pairs) ==
    /\ \A i \in DOMAIN pairs :
          /\ C4_Kept(pairs[i])
          /\ matcherForKey(pairs[i].key).kind = "string"
    /\ \A i, j \in DOMAIN pairs :
          (i # j /\ pairs[i].key = pairs[j].key) => matcherForKey(pairs[i].key).multiple

\* C6: for a selection of string-matcher entries with at most one entry per
\* non-multiple key, restoreSelection of the matches emitted by
\* updateMatches(selection) yields the same set of entries (key, value, exclude).
C6_RoundTrip ==
    (TF_phase = "restored" /\ C6_Selection(TF_pairs)) =>
        EntrySet(TF_selection) = EntrySet(TF_pairs)

\* the filter is not on the page
TF_Fixed ==
    /\ TF_selection = <<>> /\ TF_pairs = <<>>
    /\ TF_emitted = <<>> /\ TF_phase = "input"

(***************************************************************************)
(* Profit/loss events table                                                *)
(***************************************************************************)
PL_null == [page |-> 0, itemsPerPage |-> 0]

\* the rows-per-page choices of the data table; -1 is "All"
PL_ItemsPerPage == {-1, 10, 25}
PaginationOptions == [page : 1..PL_MaxPage, itemsPerPage : PL_ItemsPerPage]

\* the routes of the report page: params.id as the router holds it (a string) for
\* the report it shows
PL_Routes == {[id |-> <<"7">>, report |-> 7],
              [id |-> <<"0", "7">>, report |-> 7],
              [id |-> <<"1", "2">>, report |-> 12]}

PL_NaN == "NaN"
PL_Digits == <<"0", "1", "2", "3", "4", "5", "6", "7", "8", "9">>
PL_digit(c) == (CHOOSE d \in DOMAIN PL_Digits : PL_Digits[d] = c) - 1
PL_isDigit(c) == \E d \in DOMAIN PL_Digits : PL_Digits[d] = c

RECURSIVE PL_leadingDigits(_, _)
\* the value of the leading decimal digits of `s`, after `acc`
PL_leadingDigits(s, acc) ==
    IF s = <<>> \/ ~PL_isDigit(Head(s)) THEN acc
    ELSE PL_leadingDigits(Tail(s), acc * 10 + PL_digit(Head(s)))

\* Number.parseInt of a string without sign or blanks
parseInt(s) ==
    IF s = <<>> \/ ~PL_isDigit(Head(s)) THEN PL_NaN ELSE PL_leadingDigits(s, 0)

\* an updatePagination whose offset is that of the following page
C5_offsetNextPage(options) ==
    IF options = PL_null THEN PL_emitted
    ELSE Append(PL_emitted, [reportId |-> parseInt(PL_route.id),
                             limit |-> options.itemsPerPage,
                             offset |-> options.itemsPerPage * options.page])

\* updatePagination(options): the payloads emitted so far, after the call
updatePagination(options) ==
    IF options = PL_null THEN PL_emitted
    ELSE LET itemsPerPage == options.itemsPerPage
             page == options.page
             reportId == parseInt(PL_route.id)
         IN Append(PL_emitted, [reportId |-> reportId,
                                limit |-> itemsPerPage,
                                offset |-> itemsPerPage * (page - 1)])

PL_Init ==
    /\ PL_options = PL_null
    /\ PL_route \in PL_Routes
    /\ PL_emitted = <<>>

\* `:options.sync` of the data table assigns new options; watch(options) calls
\* updatePagination with them
PL_syncOptions(options) ==
    /\ options # PL_options
    /\ options # PL_null => Len(PL_emitted) < PL_MaxEmits
    /\ PL_options' = options
    /\ PL_emitted' = updatePagination(options)
    /\ UNCHANGED PL_route
    /\ UNCHANGED PL_others

\* the user opens another report
PL_navigate(route) ==
    /\ route # PL_route
    /\ PL_route' = route
    /\ UNCHANGED <<PL_options, PL_emitted>>
    /\ UNCHANGED PL_others

PL_Next ==
    \/ \E options \in PaginationOptions \cup {PL_null} : PL_syncOptions(options)
    \/ \E route \in PL_Routes : PL_navigate(route)

\* C5: every update of the pagination options to page p and n items per page emits
\* one 'update:page' with limit n, offset n * (p - 1) and the report id of the
\* route; an update to null emits nothing.
C5_PageEmitted ==
    [][PL_options' # PL_options =>
         IF PL_options' = PL_null
         THEN PL_emitted' = PL_emitted
         ELSE PL_emitted' = Append(PL_emitted,
                 [reportId |-> PL_route.report,
                  limit |-> PL_options'.itemsPerPage,
                  offset |-> PL_options'.itemsPerPage * (PL_options'.page - 1)])]_vars

\* a later page of report 12 was requested, and the options were cleared after it
C5_Witness ==
    /\ PL_options = PL_null
    /\ PL_emitted # <<>>
    /\ PL_emitted[Len(PL_emitted)] = [reportId |-> 12, limit |-> 25, offset |-> 50]

\* the table is not on the page
PL_Fixed == PL_options = PL_null /\ PL_route = [id |-> <<"7">>, report |-> 7]
            /\ PL_emitted = <<>>

(***************************************************************************)
(* EVM RPC node manager                                                    *)
(***************************************************************************)
NM_Nodes == [identifier : 1..NM_MaxNodes, active : BOOLEAN]

\* the lists the backend can hold: at most one node per identifier
NM_Lists == {l \in SUBSET NM_Nodes :
                \A a, b \in l : a.identifier = b.identifier => a = b}

NM_none == [op |-> "none"]

\* loadNodes up to its await, called by `by`
NM_fetchEvmNodes(by) == [op |-> "fetchEvmNodes", phase |-> "sent", by |-> by]

\* the component is mounted: the loadNodes of onMounted is at its await
NM_Init ==
    /\ NM_nodes = {}
    /\ NM_backend \in {l \in NM_Lists : Cardinality(l) = NM_MaxNodes}
    /\ NM_calls = Start([i \in 1..NM_MaxCalls |-> Idle], NM_fetchEvmNodes("onMounted"))
    /\ NM_message = NM_none
    /\ NM_notifications = 0

\* the post-submit function of the node form: loadNodes
NM_postSubmit ==
    /\ HasFree(NM_calls)
    /\ NM_calls' = Start(NM_calls, NM_fetchEvmNodes("postSubmit"))
    /\ UNCHANGED <<NM_nodes, NM_backend, NM_message, NM_notifications>>
    /\ UNCHANGED NM_others

\* deleteNode(node), for a node of the displayed list, up to its await
deleteNode(node) ==
    /\ node \in NM_nodes
    /\ HasFree(NM_calls)
    /\ NM_calls' = Start(NM_calls, [op |-> "deleteEvmNode", phase |-> "sent",
                                    identifier |-> node.identifier])
    /\ UNCHANGED <<NM_nodes, NM_backend, NM_message, NM_notifications>>
    /\ UNCHANGED NM_others

\* onActiveChange(active, node), for a node of the displayed list, up to its await
onActiveChange(active, node) ==
    /\ node \in NM_nodes
    /\ HasFree(NM_calls)
    /\ NM_calls' = Start(NM_calls, [op |-> "editEvmNode", phase |-> "sent",
                                    state |-> [node EXCEPT !.active = active]])
    /\ UNCHANGED <<NM_nodes, NM_backend, NM_message, NM_notifications>>
    /\ UNCHANGED NM_others

\* the backend answers a call: it applies it and resolves, or it rejects
NM_backendAnswer(i, ok) ==
    /\ NM_calls[i].op # "idle" /\ NM_calls[i].phase = "sent"
    /\ LET c == NM_calls[i]
           held == {n \in NM_backend :
                       c.op # "fetchEvmNodes" /\
                       n.identifier = (IF c.op = "deleteEvmNode" THEN c.identifier
                                       ELSE c.state.identifier)}
       IN IF ~ok
          THEN /\ NM_calls' = Become(NM_calls, i, [c EXCEPT !.phase = "rejected"])
               /\ UNCHANGED NM_backend
          ELSE CASE c.op = "fetchEvmNodes" ->
                      /\ NM_calls' = Become(NM_calls, i,
                            [op |-> c.op, phase |-> "resolved", by |-> c.by,
                             result |-> NM_backend])
                      /\ UNCHANGED NM_backend
                 [] c.op = "deleteEvmNode" ->
                      /\ held # {}
                      /\ NM_backend' = NM_backend \ held
                      /\ NM_calls' = Become(NM_calls, i, [c EXCEPT !.phase = "resolved"])
                 [] c.op = "editEvmNode" ->
                      /\ held # {}
                      /\ NM_backend' = (NM_backend \ held) \cup {c.state}
                      /\ NM_calls' = Become(NM_calls, i, [c EXCEPT !.phase = "resolved"])
    /\ UNCHANGED <<NM_nodes, NM_message, NM_notifications>>
    /\ UNCHANGED NM_others

\* a loadNodes that empties the list when the fetch failed
C8_loadNodesClears(i) ==
    /\ NM_calls[i].op = "fetchEvmNodes"
    /\ NM_calls[i].phase \in {"resolved", "rejected"}
    /\ IF NM_calls[i].phase = "resolved"
       THEN NM_nodes' = NM_calls[i].result /\ UNCHANGED NM_notifications
       ELSE /\ NM_notifications < NM_MaxNotifications
            /\ NM_notifications' = NM_notifications + 1
            /\ NM_nodes' = {}
    /\ NM_calls' = End(NM_calls, i)
    /\ UNCHANGED <<NM_backend, NM_message>>
    /\ UNCHANGED NM_others

\* loadNodes after its await: set(nodes, ...) or the catch block's notify; its
\* callers do nothing to the list or the stores after it
loadNodes(i) ==
    /\ NM_calls[i].op = "fetchEvmNodes"
    /\ NM_calls[i].phase \in {"resolved", "rejected"}
    /\ IF NM_calls[i].phase = "resolved"
       THEN NM_nodes' = NM_calls[i].result /\ UNCHANGED NM_notifications
       ELSE /\ NM_notifications < NM_MaxNotifications
            /\ NM_notifications' = NM_notifications + 1
            /\ UNCHANGED NM_nodes
    /\ NM_calls' = End(NM_calls, i)
    /\ UNCHANGED <<NM_backend, NM_message>>
    /\ UNCHANGED NM_others

\* deleteNode and onActiveChange after the await of their backend call: await
\* loadNodes(), or the catch block's setMessage
NM_settled(i) ==
    /\ NM_calls[i].op \in {"deleteEvmNode", "editEvmNode"}
    /\ NM_calls[i].phase \in {"resolved", "rejected"}
    /\ IF NM_calls[i].phase = "resolved"
       THEN /\ NM_calls' = Become(NM_calls, i, NM_fetchEvmNodes(NM_calls[i].op))
            /\ UNCHANGED NM_message
       ELSE /\ NM_message' = [op |-> NM_calls[i].op, success |-> FALSE]
            /\ NM_calls' = End(NM_calls, i)
    /\ UNCHANGED <<NM_nodes, NM_backend, NM_notifications>>
    /\ UNCHANGED NM_others

\* the user closes the message dialog
NM_dismissMessage ==
    /\ NM_message # NM_none
    /\ NM_message' = NM_none
    /\ UNCHANGED <<NM_nodes, NM_backend, NM_calls, NM_notifications>>
    /\ UNCHANGED NM_others

NM_Next ==
    \/ NM_postSubmit
    \/ \E node \in NM_Nodes : deleteNode(node)
    \/ \E active \in BOOLEAN, node \in NM_Nodes : onActiveChange(active, node)
    \/ \E i \in DOMAIN NM_calls, ok \in BOOLEAN : NM_backendAnswer(i, ok)
    \/ \E i \in DOMAIN NM_calls : loadNodes(i)
    \/ \E i \in DOMAIN NM_calls : NM_settled(i)
    \/ NM_dismissMessage

\* the handler of slot i ran in this step, after its backend call was answered
NM_resumed(i, ops, phase) ==
    /\ NM_calls[i].op \in ops
    /\ NM_calls[i].phase = phase
    /\ NM_calls'[i] # NM_calls[i]

\* C8: the displayed list changes only to the result of a resolved fetch; the fetch
\* of a deleteNode or onActiveChange is made only after its backend call resolved;
\* when that call rejected the list is unchanged and a message with success false
\* is set; when a fetch rejected the list is unchanged and a notification is raised.
C8_NodeListErrorHandling ==
    [][/\ NM_nodes' # NM_nodes =>
             \E i \in DOMAIN NM_calls :
                /\ NM_resumed(i, {"fetchEvmNodes"}, "resolved")
                /\ NM_nodes' = NM_calls[i].result
       /\ \A i \in DOMAIN NM_calls :
             /\ (/\ NM_calls'[i].op = "fetchEvmNodes"
                 /\ NM_calls'[i].by \in {"deleteEvmNode", "editEvmNode"}
                 /\ NM_calls[i].op # "fetchEvmNodes")
                   => NM_resumed(i, {NM_calls'[i].by}, "resolved")
             /\ NM_resumed(i, {"deleteEvmNode", "editEvmNode"}, "rejected") =>
                   /\ NM_nodes' = NM_nodes
                   /\ NM_message' = [op |-> NM_calls[i].op, success |-> FALSE]
                   /\ NM_calls'[i] = Idle
             /\ NM_resumed(i, {"fetchEvmNodes"}, "rejected") =>
                   /\ NM_nodes' = NM_nodes
                   /\ NM_notifications' = NM_notifications + 1]_vars

\* a node was deleted and the list refetched, a later toggle failed with its
\* message, and a fetch failed with its notification
C8_Witness ==
    /\ Cardinality(NM_nodes) = 1
    /\ NM_message = [op |-> "editEvmNode", success |-> FALSE]
    /\ NM_notifications = 1

\* the node manager is not on the page
NM_Fixed ==
    /\ NM_nodes = {} /\ NM_backend = {} /\ NM_calls = [i \in 1..NM_MaxCalls |-> Idle]
    /\ NM_message = NM_none /\ NM_notifications = 0

(***************************************************************************)
(* Backup manager                                                          *)
(***************************************************************************)
\* the backups that can exist, in the order the backend lists them
BK_Backups == << [version |-> 1, time |-> 1, size |-> 1],
                 [version |-> 1, time |-> 2, size |-> 2] >>

BK_null == [op |-> "null"]
BK_nothing == [op |-> "none", failed |-> FALSE]

isSameEntry(firstDb, secondDb) ==
    /\ firstDb.version = secondDb.version
    /\ firstDb.time = secondDb.time
    /\ firstDb.size = secondDb.size

\* the sublist of BK_Backups with the indexes `keep`
RECURSIVE BK_list(_, _)
BK_list(keep, n) ==
    IF n = 0 THEN <<>>
    ELSE IF n \in keep THEN Append(BK_list(keep, n - 1), BK_Backups[n])
         ELSE BK_list(keep, n - 1)

BK_Lists == {BK_list(keep, Len(BK_Backups)) : keep \in SUBSET DOMAIN BK_Backups}

\* Array.prototype.findIndex with isSameEntry: a 0-based index, or -1
findIndex(backups, db) ==
    LET hits == {i \in DOMAIN backups : isSameEntry(backups[i], db)}
    IN IF hits = {} THEN -1 ELSE (CHOOSE i \in hits : \A j \in hits : i <= j) - 1

\* Array.prototype.splice(index, 1): a negative index counts from the end
splice(backups, index) ==
    LET len == Len(backups)
        start == IF index < 0
                 THEN (IF len + index < 0 THEN 0 ELSE len + index)
                 ELSE (IF index > len THEN len ELSE index)
    IN IF start >= len THEN backups
       ELSE SubSeq(backups, 1, start) \o SubSeq(backups, start + 2, len)

RECURSIVE BK_spliceAll(_, _)
\* the forEach of massRemove over the selection
BK_spliceAll(backups, dbs) ==
    IF dbs = <<>> THEN backups
    ELSE BK_spliceAll(splice(backups, findIndex(backups, Head(dbs))), Tail(dbs))

\* computed `backups`
backups == IF BK_backupInfo = BK_null THEN <<>> ELSE BK_backupInfo.backups

\* notify of the notification store
BK_notify(n) ==
    /\ BK_notifications + n <= BK_MaxNotifications
    /\ BK_notifications' = BK_notifications + n

\* the component is mounted: the loadInfo of onMounted is at its await
BK_Init ==
    /\ BK_backupInfo = BK_null
    /\ BK_selected = <<>>
    /\ BK_loading = TRUE
    /\ BK_saving = FALSE
    /\ BK_backend = BK_Backups
    /\ BK_calls = Start([i \in 1..BK_MaxCalls |-> Idle],
                        [op |-> "info", phase |-> "sent", by |-> "loadInfo"])
    /\ BK_notifications = 0
    /\ BK_last = BK_nothing

\* the refresh button: loadInfo up to its await
BK_refresh ==
    /\ HasFree(BK_calls)
    /\ BK_loading' = TRUE
    /\ BK_calls' = Start(BK_calls, [op |-> "info", phase |-> "sent", by |-> "loadInfo"])
    /\ UNCHANGED <<BK_backupInfo, BK_selected, BK_saving, BK_backend,
                   BK_notifications, BK_last>>
    /\ UNCHANGED BK_others

\* a loadInfo without its finally block
C9_loadInfoNoFinally(i) ==
    /\ BK_calls[i].op = "info" /\ BK_calls[i].phase # "sent"
    /\ IF BK_calls[i].phase = "resolved"
       THEN /\ BK_backupInfo' = [backups |-> BK_calls[i].result]
            /\ BK_loading' = FALSE
            /\ UNCHANGED BK_notifications
       ELSE /\ BK_notify(1)
            /\ UNCHANGED <<BK_backupInfo, BK_loading>>
    /\ BK_saving' = (BK_saving /\ BK_calls[i].by # "backup")
    /\ BK_calls' = End(BK_calls, i)
    /\ BK_last' = [op |-> BK_calls[i].by, failed |-> BK_calls[i].phase = "rejected"]
    /\ UNCHANGED <<BK_selected, BK_backend>>
    /\ UNCHANGED BK_others

\* loadInfo after its await: the rest of try, or catch, then finally; a loadInfo
\* that backup() awaited returns into the finally block of backup()
loadInfo(i) ==
    /\ BK_calls[i].op = "info" /\ BK_calls[i].phase # "sent"
    /\ IF BK_calls[i].phase = "resolved"
       THEN BK_backupInfo' = [backups |-> BK_calls[i].result] /\ UNCHANGED BK_notifications
       ELSE BK_notify(1) /\ UNCHANGED BK_backupInfo
    /\ BK_loading' = FALSE
    /\ BK_saving' = (BK_saving /\ BK_calls[i].by # "backup")
    /\ BK_calls' = End(BK_calls, i)
    /\ BK_last' = [op |-> BK_calls[i].by, failed |-> BK_calls[i].phase = "rejected"]
    /\ UNCHANGED <<BK_selected, BK_backend>>
    /\ UNCHANGED BK_others

\* @change of the backups table: any selection of displayed backups
onSelectedChange(newSelected) ==
    /\ newSelected # BK_selected
    /\ \A i \in DOMAIN newSelected : \E j \in DOMAIN backups : newSelected[i] = backups[j]
    /\ BK_selected' = newSelected
    /\ UNCHANGED <<BK_backupInfo, BK_loading, BK_saving, BK_backend, BK_calls,
                   BK_notifications, BK_last>>
    /\ UNCHANGED BK_others

\* the start of remove(db) and massRemove: deleteBackup of the files of `dbs`
BK_deleteBackup(kind, dbs) ==
    /\ HasFree(BK_calls)
    /\ BK_calls' = Start(BK_calls, [op |-> "deleteBackup", phase |-> "sent",
                                    by |-> kind, dbs |-> dbs])
    /\ UNCHANGED <<BK_backupInfo, BK_selected, BK_loading, BK_saving, BK_backend,
                   BK_notifications, BK_last>>
    /\ UNCHANGED BK_others

\* @remove of the backups table, for a displayed backup: remove(db) up to its await
remove(db) ==
    /\ \E j \in DOMAIN backups : backups[j] = db
    /\ BK_deleteBackup("remove", <<db>>)

\* the confirmed mass deletion: massRemove up to its await
massRemove ==
    /\ BK_selected # <<>>
    /\ BK_deleteBackup("massRemove", BK_selected)

\* remove and massRemove after the await of deleteBackup
BK_deleted(i) ==
    /\ BK_calls[i].op = "deleteBackup" /\ BK_calls[i].phase # "sent"
    /\ LET c == BK_calls[i]
       IN IF c.phase = "rejected"
          THEN /\ BK_notify(1)
               /\ UNCHANGED <<BK_backupInfo, BK_selected>>
          ELSE /\ UNCHANGED BK_notifications
               /\ IF c.by = "massRemove"
                  THEN /\ BK_backupInfo' =
                             IF BK_backupInfo = BK_null THEN BK_null
                             ELSE [backups |-> BK_spliceAll(backups, BK_selected)]
                       /\ BK_selected' = <<>>
                  ELSE IF BK_backupInfo = BK_null
                  THEN UNCHANGED <<BK_backupInfo, BK_selected>>
                  ELSE /\ BK_backupInfo' =
                             [backups |-> splice(backups, findIndex(backups, c.dbs[1]))]
                       /\ BK_selected' =
                             SelectSeq(BK_selected, LAMBDA item : ~isSameEntry(item, c.dbs[1]))
    /\ BK_calls' = End(BK_calls, i)
    /\ BK_last' = [op |-> BK_calls[i].by, failed |-> BK_calls[i].phase = "rejected"]
    /\ UNCHANGED <<BK_loading, BK_saving, BK_backend>>
    /\ UNCHANGED BK_others

\* the backup button (disabled while saving): backup() up to its first await
backup ==
    /\ ~BK_saving
    /\ HasFree(BK_calls)
    /\ BK_saving' = TRUE
    /\ BK_calls' = Start(BK_calls, [op |-> "createBackup", phase |-> "sent"])
    /\ UNCHANGED <<BK_backupInfo, BK_selected, BK_loading, BK_backend,
                   BK_notifications, BK_last>>
    /\ UNCHANGED BK_others

\* backup() after the await of createBackup: the info notification and
\* `await refresh()`, or catch and finally
BK_created(i) ==
    /\ BK_calls[i].op = "createBackup" /\ BK_calls[i].phase # "sent"
    /\ BK_notify(1)
    /\ IF BK_calls[i].phase = "resolved"
       THEN /\ BK_loading' = TRUE
            /\ BK_calls' = Become(BK_calls, i,
                               [op |-> "info", phase |-> "sent", by |-> "backup"])
            /\ UNCHANGED <<BK_saving, BK_last>>
       ELSE /\ BK_saving' = FALSE
            /\ BK_calls' = End(BK_calls, i)
            /\ BK_last' = [op |-> "backup", failed |-> TRUE]
            /\ UNCHANGED BK_loading
    /\ UNCHANGED <<BK_backupInfo, BK_selected, BK_backend>>
    /\ UNCHANGED BK_others

\* the backend answers a call: it applies it and resolves, or it rejects
BK_backendAnswer(i, ok) ==
    /\ BK_calls[i].op # "idle" /\ BK_calls[i].phase = "sent"
    /\ LET c == BK_calls[i]
           held(db) == \E j \in DOMAIN BK_backend : BK_backend[j] = db
           missing == {n \in DOMAIN BK_Backups : ~held(BK_Backups[n])}
       IN IF ~ok
          THEN /\ BK_calls' = Become(BK_calls, i, [c EXCEPT !.phase = "rejected"])
               /\ UNCHANGED BK_backend
          ELSE CASE c.op = "info" ->
                      /\ BK_calls' = Become(BK_calls, i,
                            [op |-> c.op, phase |-> "resolved", by |-> c.by,
                             result |-> BK_backend])
                      /\ UNCHANGED BK_backend
                 [] c.op = "deleteBackup" ->
                      /\ \A j \in DOMAIN c.dbs : held(c.dbs[j])
                      /\ BK_backend' = SelectSeq(BK_backend,
                            LAMBDA b : \A j \in DOMAIN c.dbs : c.dbs[j] # b)
                      /\ BK_calls' = Become(BK_calls, i, [c EXCEPT !.phase = "resolved"])
                 [] c.op = "createBackup" ->
                      /\ missing # {}
                      /\ BK_backend' =
                            BK_list((DOMAIN BK_Backups \ missing)
                                       \cup {CHOOSE n \in missing : \A k \in missing : n <= k},
                                    Len(BK_Backups))
                      /\ BK_calls' = Become(BK_calls, i, [c EXCEPT !.phase = "resolved"])
    /\ UNCHANGED <<BK_backupInfo, BK_selected, BK_loading, BK_saving,
                   BK_notifications, BK_last>>
    /\ UNCHANGED BK_others

\* the user dismisses a notification
BK_dismiss ==
    /\ BK_notifications > 0
    /\ BK_notifications' = BK_notifications - 1
    /\ UNCHANGED <<BK_backupInfo, BK_selected, BK_loading, BK_saving, BK_backend,
                   BK_calls, BK_last>>
    /\ UNCHANGED BK_others

BK_Next ==
    \/ BK_refresh
    \/ \E i \in DOMAIN BK_calls : loadInfo(i)
    \/ \E newSelected \in BK_Lists : onSelectedChange(newSelected)
    \/ \E n \in DOMAIN BK_Backups : remove(BK_Backups[n])
    \/ massRemove
    \/ \E i \in DOMAIN BK_calls : BK_deleted(i)
    \/ backup
    \/ \E i \in DOMAIN BK_calls : BK_created(i)
    \/ \E i \in DOMAIN BK_calls, ok \in BOOLEAN : BK_backendAnswer(i, ok)
    \/ BK_dismiss

\* the handler of slot i ran in this step, after its backend call was answered
BK_resumed(i, op, phase) ==
    /\ BK_calls[i].op = op
    /\ BK_calls[i].phase = phase
    /\ BK_calls'[i] # BK_calls[i]

\* C9: a loadInfo that finishes leaves `loading` false and a backup that finishes
\* leaves `saving` false, resolved or rejected; a remove or massRemove whose
\* deleteBackup rejected leaves backupInfo and the selection unchanged and raises
\* exactly one notification; a massRemove whose deleteBackup resolved leaves the
\* selection empty.
C9_BusyFlagsAndFailures ==
    [][\A i \in DOMAIN BK_calls :
          /\ (BK_calls[i].op = "info" /\ BK_calls'[i] = Idle) =>
                /\ BK_loading' = FALSE
                /\ BK_calls[i].by = "backup" => BK_saving' = FALSE
          /\ (BK_calls[i].op = "createBackup" /\ BK_calls'[i] = Idle) =>
                BK_saving' = FALSE
          /\ BK_resumed(i, "deleteBackup", "rejected") =>
                /\ BK_backupInfo' = BK_backupInfo
                /\ BK_selected' = BK_selected
                /\ BK_notifications' = BK_notifications + 1
          /\ (BK_resumed(i, "deleteBackup", "resolved") /\ BK_calls[i].by = "massRemove") =>
                BK_selected' = <<>>]_vars

\* a massRemove failed with its notification and left the selection, after a
\* backup() had finished
C9_Witness ==
    /\ BK_last = [op |-> "massRemove", failed |-> TRUE]
    /\ BK_selected # <<>>
    /\ BK_notifications = 1
    /\ ~BK_saving /\ ~BK_loading
    /\ Len(backups) = Len(BK_Backups)

\* C10: when the deleteBackup of a remove(db) or massRemove resolved, the local
\* backups list becomes the previous list without the entries equal (version,
\* time, size) to a backup whose file was deleted, and keeps every other entry.
C10_OnlyRemovedDropped ==
    [][\A i \in DOMAIN BK_calls :
          (BK_resumed(i, "deleteBackup", "resolved") /\ BK_backupInfo # BK_null) =>
             BK_backupInfo' =
                [backups |-> SelectSeq(backups,
                                LAMBDA b : \A j \in DOMAIN BK_calls[i].dbs :
                                              BK_calls[i].dbs[j] # b)]]_vars

\* the backup manager is not on the page
BK_Fixed ==
    /\ BK_backupInfo = BK_null /\ BK_selected = <<>> /\ BK_loading = FALSE
    /\ BK_saving = FALSE /\ BK_backend = <<>>
    /\ BK_calls = [i \in 1..BK_MaxCalls |-> Idle]
    /\ BK_notifications = 0 /\ BK_last = BK_nothing

(***************************************************************************)
(* History events view: the delete/ignore prompt                           *)
(***************************************************************************)
\* the identifiers of the rows of the table
DP_Items == {1, 2}

DP_closed == [open |-> FALSE]

DP_Init ==
    /\ DP_eventToDelete = 0
    /\ DP_transactionToIgnore = 0
    /\ DP_dialog = DP_closed
    /\ DP_calls = [i \in 1..DP_MaxCalls |-> Idle]
    /\ DP_deleted = {}
    /\ DP_ignored = {}
    /\ DP_wrong = FALSE

\* @delete:event of a row: promptForDelete, which shows the confirmation dialog
promptForDelete(item, canDelete) ==
    /\ DP_dialog = DP_closed
    /\ item \notin DP_deleted
    /\ IF canDelete
       THEN DP_eventToDelete' = item /\ UNCHANGED DP_transactionToIgnore
       ELSE DP_transactionToIgnore' = item /\ UNCHANGED DP_eventToDelete
    /\ DP_dialog' = [open |-> TRUE, item |-> item, canDelete |-> canDelete]
    /\ UNCHANGED <<DP_calls, DP_deleted, DP_ignored, DP_wrong>>
    /\ UNCHANGED DP_others

\* the dialog is dismissed: resetPendingDeletion
resetPendingDeletion ==
    /\ DP_dialog # DP_closed
    /\ DP_eventToDelete' = 0
    /\ DP_transactionToIgnore' = 0
    /\ DP_dialog' = DP_closed
    /\ UNCHANGED <<DP_calls, DP_deleted, DP_ignored, DP_wrong>>
    /\ UNCHANGED DP_others

\* lines 470-482 of deleteEventHandler, run by the call `c` that was confirmed for
\* the prompt `for`: the delete request is sent, or the refs are reset
DP_deletePart(calls, for) ==
    IF DP_eventToDelete # 0
    THEN /\ DP_calls' = Start(calls, [op |-> "deleteTransactionEvent",
                                      id |-> DP_eventToDelete, for |-> for])
         /\ UNCHANGED <<DP_eventToDelete, DP_transactionToIgnore>>
    ELSE /\ DP_calls' = calls
         /\ DP_eventToDelete' = 0
         /\ DP_transactionToIgnore' = 0

\* the prompt `for` was not opened to ignore the transaction `tx`
DP_notIgnoreOf(for, tx) == for.canDelete \/ for.item # tx

\* the prompt `for` was not opened to delete the event `id`
DP_notDeleteOf(for, id) == ~for.canDelete \/ for.item # id

\* the dialog is confirmed: deleteEventHandler up to its first await
deleteEventHandler ==
    /\ DP_dialog # DP_closed
    /\ HasFree(DP_calls)
    /\ DP_dialog' = DP_closed
    /\ IF DP_transactionToIgnore # 0
       THEN \* set(selected, [txToIgnore]); await ignore(true)
            /\ DP_ignored' = DP_ignored \cup {DP_transactionToIgnore}
            /\ DP_wrong' = (DP_wrong \/ DP_notIgnoreOf(DP_dialog, DP_transactionToIgnore))
            /\ DP_calls' = Start(DP_calls, [op |-> "ignore", for |-> DP_dialog])
            /\ UNCHANGED <<DP_eventToDelete, DP_transactionToIgnore>>
       ELSE /\ DP_deletePart(DP_calls, DP_dialog)
            /\ UNCHANGED <<DP_ignored, DP_wrong>>
    /\ UNCHANGED DP_deleted
    /\ UNCHANGED DP_others

\* deleteEventHandler after the await of ignore(true)
DP_afterIgnore(i) ==
    /\ DP_calls[i].op = "ignore"
    /\ DP_deletePart(End(DP_calls, i), DP_calls[i].for)
    /\ UNCHANGED <<DP_dialog, DP_deleted, DP_ignored, DP_wrong>>
    /\ UNCHANGED DP_others

\* deleteEventHandler after the await of deleteTransactionEvent([id]): it
\* returns when the deletion did not succeed, else it awaits the refetch
DP_afterDelete(i, success) ==
    /\ DP_calls[i].op = "deleteTransactionEvent"
    /\ IF success
       THEN /\ DP_deleted' = DP_deleted \cup {DP_calls[i].id}
            /\ DP_wrong' = (DP_wrong \/ DP_notDeleteOf(DP_calls[i].for, DP_calls[i].id))
            /\ DP_calls' = Become(DP_calls, i, [op |-> "fetchDataAndRefreshEvents"])
       ELSE /\ DP_calls' = End(DP_calls, i)
            /\ UNCHANGED <<DP_deleted, DP_wrong>>
    /\ UNCHANGED <<DP_eventToDelete, DP_transactionToIgnore, DP_dialog, DP_ignored>>
    /\ UNCHANGED DP_others

\* deleteEventHandler after the await of fetchDataAndRefreshEvents
DP_afterFetch(i) ==
    /\ DP_calls[i].op = "fetchDataAndRefreshEvents"
    /\ DP_eventToDelete' = 0
    /\ DP_transactionToIgnore' = 0
    /\ DP_calls' = End(DP_calls, i)
    /\ UNCHANGED <<DP_dialog, DP_deleted, DP_ignored, DP_wrong>>
    /\ UNCHANGED DP_others

DP_Next ==
    \/ \E item \in DP_Items, canDelete \in BOOLEAN : promptForDelete(item, canDelete)
    \/ resetPendingDeletion
    \/ deleteEventHandler
    \/ \E i \in DOMAIN DP_calls : DP_afterIgnore(i)
    \/ \E i \in DOMAIN DP_calls, success \in BOOLEAN : DP_afterDelete(i, success)
    \/ \E i \in DOMAIN DP_calls : DP_afterFetch(i)

\* C11: at most one of eventToDelete and transactionToIgnore is set, and no
\* confirmation has deleted or ignored an item other than the one its prompt was
\* opened for.
C11_OnePendingItem ==
    /\ DP_eventToDelete = 0 \/ DP_transactionToIgnore = 0
    /\ ~DP_wrong

\* the prompt is not on the page
DP_Fixed ==
    /\ DP_eventToDelete = 0 /\ DP_transactionToIgnore = 0 /\ DP_dialog = DP_closed
    /\ DP_calls = [i \in 1..DP_MaxCalls |-> Idle]
    /\ DP_deleted = {} /\ DP_ignored = {} /\ DP_wrong = FALSE

(***************************************************************************)
(* Table filter: the search field and its suggestions                      *)
(***************************************************************************)
\* the key of a matcher as the characters the user types
FI_keyText(key) ==
    CASE key = "asset" -> <<"a", "s">>
      [] key = "action" -> <<"a", "c">>
      [] key = "start" -> <<"s">>
      [] key = "location" -> <<"l">>
      [] key = "notes" -> <<"n">>
      [] OTHER -> <<>>

\* `'string' in matcher && matcher.allowExclusion`
FI_allowExclusion(matcher) == matcher.kind = "string" /\ matcher.key = "location"

\* matcher.suggestions() of a string matcher: a date or free-text matcher has none
FI_suggestions(matcher) ==
    IF matcher.serializer \/ matcher.keyValue = "" THEN {} ELSE matcher.valid

StartsWith(text, prefix) ==
    Len(prefix) <= Len(text) /\ SubSeq(text, 1, Len(prefix)) = prefix

\* String.prototype.indexOf, 0 when the pattern does not occur
FI_indexOf(text, pattern) ==
    LET hits == {i \in 1..Len(text) : StartsWith(SubSeq(text, i, Len(text)), pattern)}
    IN IF hits = {} THEN 0 ELSE CHOOSE i \in hits : \A j \in hits : i <= j

\* splitSearch of the search utilities: the text is cut at the first '!=' or else at
\* the first '='; a text without an operator is a key
splitSearch(keyword) ==
    LET negate == FI_indexOf(keyword, <<"!", "=">>)
        index == FI_indexOf(keyword, <<"=">>)
    IN IF negate > 0
       THEN [key |-> SubSeq(keyword, 1, negate - 1),
             value |-> SubSeq(keyword, negate + 2, Len(keyword)), exclude |-> TRUE]
       ELSE IF index > 0
       THEN [key |-> SubSeq(keyword, 1, index - 1),
             value |-> SubSeq(keyword, index + 1, Len(keyword)), exclude |-> FALSE]
       ELSE [key |-> keyword, value |-> <<>>, exclude |-> FALSE]

\* computed `selectedMatcher`, NoMatcher for null
selectedMatcher(search) ==
    TF_find({i \in DOMAIN TF_matchers :
                FI_keyText(TF_matchers[i].key) = splitSearch(search).key})

\* computed `usedKeys`
usedKeys(selection) == {selection[i].key : i \in DOMAIN selection}

\* computed `filteredMatchers`
filteredMatchers(selection, search) ==
    SelectSeq(TF_matchers,
              LAMBDA m : /\ m.key \notin usedKeys(selection) \/ m.multiple
                         /\ StartsWith(FI_keyText(m.key), search))

\* the number of suggestions the dropdown shows, as moveSuggestion computes it
FI_total ==
    IF selectedMatcher(FI_search) # NoMatcher THEN FI_suggestedFilter.total
    ELSE Len(filteredMatchers(FI_selection, FI_search))

\* the texts the user types
FI_Searches == { <<>>, <<"a">>, <<"z">>, <<"l">>, <<"s", "=", "a">> }

\* the filters the dropdown offers
FI_Filters ==
    { [key |-> "action", value |-> Str(<<"a">>), exclude |-> FALSE],
      [key |-> "action", value |-> Str(<<"b">>), exclude |-> FALSE],
      [key |-> "location", value |-> Str(<<"a">>), exclude |-> FALSE],
      [key |-> "location", value |-> Str(<<"b">>), exclude |-> FALSE],
      [key |-> "location", value |-> Str(<<"b">>), exclude |-> TRUE],
      [key |-> "asset", value |-> Asset(<<"a">>), exclude |-> FALSE] }

FI_noSuggestion == [key |-> "", value |-> Str(<<>>), exclude |-> FALSE, total |-> 0]
FI_notPending == [pending |-> FALSE]
FI_noFilter == [key |-> ""]
\* the record of a handler: `size` is the length of the selection it started with
FI_Last(op, filter, threw) ==
    [op |-> op, filter |-> filter, threw |-> threw, size |-> Len(FI_selection)]

FI_Init ==
    /\ FI_selection = <<>>
    /\ FI_search = <<>>
    /\ FI_selectedSuggestion = 0
    /\ FI_suggestedFilter = FI_noSuggestion
    /\ FI_emitted = FI_notPending
    /\ FI_last = [op |-> "none", filter |-> FI_noFilter, threw |-> FALSE, size |-> 0]

\* set(search, text) and watch(search), which runs when the text has changed
FI_setSearch(text, position) ==
    /\ FI_search' = text
    /\ FI_selectedSuggestion' = IF text # FI_search THEN 0 ELSE position

\* updateMatches(pairs) of the component: the selection and the emitted payload
FI_updateMatches(pairs) ==
    /\ FI_selection' = updateMatches(pairs)[2]
    /\ FI_emitted' = [pending |-> TRUE, matches |-> updateMatches(pairs)[1]]

\* the user types: the search-input sync of the combobox
FI_input(text) ==
    /\ text # FI_search
    /\ FI_setSearch(text, FI_selectedSuggestion)
    /\ FI_last' = FI_Last("other", FI_noFilter, FALSE)
    /\ UNCHANGED <<FI_selection, FI_suggestedFilter, FI_emitted>>
    /\ UNCHANGED FI_others

\* @suggest of the dropdown: the suggestion of the selected matcher that is
\* highlighted, and the number of suggestions
FI_suggest(filter, total) ==
    /\ selectedMatcher(FI_search) # NoMatcher
    /\ filter.key = selectedMatcher(FI_search).key
    /\ FI_suggestedFilter' =
          [key |-> filter.key, value |-> filter.value, exclude |-> filter.exclude,
           total |-> total]
    /\ FI_suggestedFilter' # FI_suggestedFilter
    /\ FI_last' = FI_Last("other", FI_noFilter, FALSE)
    /\ UNCHANGED <<FI_selection, FI_search, FI_selectedSuggestion, FI_emitted>>
    /\ UNCHANGED FI_others

\* @suggest of the dropdown when it has nothing to suggest
FI_suggestNothing ==
    /\ FI_suggestedFilter # FI_noSuggestion
    /\ FI_suggestedFilter' = FI_noSuggestion
    /\ FI_last' = FI_Last("other", FI_noFilter, FALSE)
    /\ UNCHANGED <<FI_selection, FI_search, FI_selectedSuggestion, FI_emitted>>
    /\ UNCHANGED FI_others

\* a selection that only appends the filter
C15_pushOnly(selection, filter) == Append(selection, filter)

\* lines 120-134 of applyFilter: the array handed to updateMatches
FI_newSelection(selection, filter) ==
    LET hits == {i \in DOMAIN selection : selection[i].key = filter.key}
        index == IF hits = {} THEN 0 ELSE CHOOSE i \in hits : \A j \in hits : i <= j
        matcher == matcherForKey(filter.key)
    IN IF index > 0 /\ (~matcher.multiple \/ selection[index].exclude # filter.exclude)
       THEN Append(SelectSeq(selection, LAMBDA item : item.key # filter.key), filter)
       ELSE Append(selection, filter)

\* @apply:filter of the dropdown: applyFilter(filter)
applyFilter(filter) ==
    /\ Len(FI_newSelection(FI_selection, filter)) <= FI_MaxSelection
    /\ FI_updateMatches(FI_newSelection(FI_selection, filter))
    /\ FI_setSearch(<<>>, FI_selectedSuggestion)
    /\ FI_last' = FI_Last("applyFilter", filter, FALSE)
    /\ UNCHANGED FI_suggestedFilter
    /\ UNCHANGED FI_others

\* @click:close of a chip: removeSelection(item)
removeSelection(i) ==
    /\ i \in DOMAIN FI_selection
    /\ FI_updateMatches(SelectSeq(FI_selection, LAMBDA sel : sel # FI_selection[i]))
    /\ FI_last' = FI_Last("other", FI_noFilter, FALSE)
    /\ UNCHANGED <<FI_search, FI_selectedSuggestion, FI_suggestedFilter>>
    /\ UNCHANGED FI_others

\* getSuggestionText of a string suggestion
getSuggestionText(suggestion) ==
    FI_keyText(suggestion.key)
       \o (IF suggestion.exclude THEN <<"!", "=">> ELSE <<"=">>)
       \o (IF IsString(suggestion.value) THEN suggestion.value.str
           ELSE suggestion.value.identifier)

\* @click of a chip: removeSelection(item) and selectItem(item)
selectItem(i) ==
    /\ i \in DOMAIN FI_selection
    /\ FI_updateMatches(SelectSeq(FI_selection, LAMBDA sel : sel # FI_selection[i]))
    /\ FI_setSearch(getSuggestionText(FI_selection[i]), FI_selectedSuggestion)
    /\ FI_last' = FI_Last("other", FI_noFilter, FALSE)
    /\ UNCHANGED FI_suggestedFilter
    /\ UNCHANGED FI_others

\* setSearchToMatcherKey(matcher) for a matcher
setSearchToMatcherKey(matcher) ==
    FI_keyText(matcher.key) \o (IF FI_allowExclusion(matcher) THEN <<>> ELSE <<"=">>)

\* @click of the dropdown on a matcher of the list
FI_clickMatcher(i) ==
    /\ i \in DOMAIN filteredMatchers(FI_selection, FI_search)
    /\ FI_setSearch(setSearchToMatcherKey(filteredMatchers(FI_selection, FI_search)[i]),
                    FI_selectedSuggestion)
    /\ FI_last' = FI_Last("other", FI_noFilter, FALSE)
    /\ UNCHANGED <<FI_selection, FI_suggestedFilter, FI_emitted>>
    /\ UNCHANGED FI_others

\* the else branch of applySuggestion: the filter made of the typed keyword when the
\* matcher has no suggestions and validates it, FI_noFilter otherwise
FI_typedFilter(search) ==
    LET split == splitSearch(search)
        matcher == selectedMatcher(search)
        asset == matcher.kind = "asset"
    IN IF /\ matcher.kind = "string"
          /\ FI_suggestions(matcher) = {}
          /\ split.value \in matcher.valid
       THEN [key |-> matcher.key, value |-> Str(split.value), exclude |-> split.exclude]
       ELSE FI_noFilter

\* Enter: applySuggestion
applySuggestion ==
    IF selectedMatcher(FI_search) = NoMatcher
    THEN LET filteredMatchersVal == filteredMatchers(FI_selection, FI_search)
             selectedIndex == FI_selectedSuggestion
         IN IF Len(filteredMatchersVal) >= selectedIndex
            THEN IF selectedIndex + 1 \in DOMAIN filteredMatchersVal
                 THEN /\ FI_setSearch(
                            setSearchToMatcherKey(filteredMatchersVal[selectedIndex + 1]),
                            FI_selectedSuggestion)
                      /\ FI_last' = FI_Last("applySuggestion", FI_noFilter, FALSE)
                      /\ UNCHANGED <<FI_selection, FI_suggestedFilter, FI_emitted>>
                      /\ UNCHANGED FI_others
                 \* filteredMatchersVal[selectedIndex] is undefined and
                 \* `'string' in matcher` throws a TypeError
                 ELSE /\ FI_last' = FI_Last("applySuggestion", FI_noFilter, TRUE)
                      /\ UNCHANGED <<FI_selection, FI_search, FI_selectedSuggestion,
                                     FI_suggestedFilter, FI_emitted>>
                      /\ UNCHANGED FI_others
            ELSE /\ FI_last' = FI_Last("applySuggestion", FI_noFilter, FALSE)
                 /\ UNCHANGED <<FI_selection, FI_search, FI_selectedSuggestion,
                                FI_suggestedFilter, FI_emitted>>
                 /\ UNCHANGED FI_others
    ELSE LET filter == IF FI_suggestedFilter.value # Str(<<>>)
                       THEN [key |-> FI_suggestedFilter.key,
                             value |-> FI_suggestedFilter.value,
                             exclude |-> FI_suggestedFilter.exclude]
                       ELSE FI_typedFilter(FI_search)
         IN /\ IF filter = FI_noFilter
               THEN UNCHANGED <<FI_selection, FI_emitted>>
               ELSE /\ Len(FI_newSelection(FI_selection, filter)) <= FI_MaxSelection
                    /\ FI_updateMatches(FI_newSelection(FI_selection, filter))
            /\ FI_selectedSuggestion' = 0
            /\ FI_search' = <<>>
            /\ FI_last' = FI_Last("applySuggestion", filter, FALSE)
            /\ UNCHANGED FI_suggestedFilter
            /\ UNCHANGED FI_others

\* the arrow keys and Tab: moveSuggestion(up)
moveSuggestion(up) ==
    LET total == FI_total
        position == FI_selectedSuggestion + (IF up THEN -1 ELSE 1)
    IN /\ FI_selectedSuggestion' =
             IF position >= total THEN 0
             ELSE IF position < 0 THEN total - 1
             ELSE position
       /\ FI_last' = FI_Last("other", FI_noFilter, FALSE)
       /\ UNCHANGED <<FI_selection, FI_search, FI_suggestedFilter, FI_emitted>>
       /\ UNCHANGED FI_others

\* the parent passes the payload down as `matches`; watch(matches) restores the selection
FI_watchMatches ==
    /\ FI_emitted.pending
    /\ FI_selection' = restoreSelection(FI_emitted.matches, FI_selection)
    /\ FI_emitted' = FI_notPending
    /\ FI_last' = FI_Last("other", FI_noFilter, FALSE)
    /\ UNCHANGED <<FI_search, FI_selectedSuggestion, FI_suggestedFilter>>
    /\ UNCHANGED FI_others

\* the values of `matches` the parent sets by itself: a saved filter, the query of
\* the route
FI_ParentMatches ==
    { <<>>,
      <<[key |-> "asset", value |-> Single(<<"a">>)]>>,
      <<[key |-> "asset", value |-> Single(<<"b">>)]>> }

\* the parent changes `matches`: watch(matches) restores the selection
FI_matchesChanged(matches) ==
    /\ FI_selection' = restoreSelection(matches, FI_selection)
    /\ FI_emitted' = FI_notPending
    /\ FI_last' = FI_Last("matches", FI_noFilter, FALSE)
    /\ UNCHANGED <<FI_search, FI_selectedSuggestion, FI_suggestedFilter>>
    /\ UNCHANGED FI_others

FI_Next ==
    \/ \E text \in FI_Searches : FI_input(text)
    \/ \E filter \in FI_Filters, total \in 1..FI_MaxTotal : FI_suggest(filter, total)
    \/ FI_suggestNothing
    \/ \E filter \in FI_Filters : applyFilter(filter)
    \/ \E i \in 1..FI_MaxSelection : removeSelection(i)
    \/ \E i \in 1..FI_MaxSelection : selectItem(i)
    \/ \E i \in DOMAIN TF_matchers : FI_clickMatcher(i)
    \/ applySuggestion
    \/ \E up \in BOOLEAN : moveSuggestion(up)
    \/ FI_watchMatches
    \/ \E matches \in FI_ParentMatches : FI_matchesChanged(matches)

\* C12: when Enter is pressed while the search text selects no matcher, the search
\* text becomes the key of the matcher at index selectedSuggestion of the filtered
\* matchers, followed by '=' unless that matcher allows exclusion; when the list has
\* no matcher at that index nothing is changed and no error is thrown.
C12_EnterWithoutMatcher ==
    [][(applySuggestion /\ selectedMatcher(FI_search) = NoMatcher) =>
          LET list == filteredMatchers(FI_selection, FI_search)
              index == FI_selectedSuggestion + 1
          IN IF index \in DOMAIN list
             THEN FI_search' = FI_keyText(list[index].key)
                                  \o (IF FI_allowExclusion(list[index]) THEN <<>>
                                      ELSE <<"=">>)
             ELSE /\ ~FI_last'.threw
                  /\ UNCHANGED <<FI_selection, FI_search, FI_selectedSuggestion,
                                 FI_suggestedFilter, FI_emitted>>]_vars

C13_Valid(position, total) ==
    IF total = 0 THEN position = 0 ELSE position \in 0..(total - 1)

\* C13: selectedSuggestion is always a valid index of the suggestions (0 when there
\* are none); moving down from the last suggestion wraps to 0, moving up from 0
\* wraps to the last one, and every change of the search text resets it to 0.
C13_SuggestionIndex ==
    [][/\ C13_Valid(FI_selectedSuggestion', FI_total')
       /\ (moveSuggestion(FALSE) /\ FI_selectedSuggestion = FI_total - 1) =>
             FI_selectedSuggestion' = 0
       /\ (moveSuggestion(TRUE) /\ FI_selectedSuggestion = 0) =>
             FI_selectedSuggestion' = FI_total - 1
       /\ FI_search' # FI_search => FI_selectedSuggestion' = 0]_vars

C15_Wellformed(selection) ==
    \A i, j \in DOMAIN selection :
        (i # j /\ selection[i].key = selection[j].key) =>
            /\ matcherForKey(selection[i].key).multiple
            /\ selection[i].exclude = selection[j].exclude

\* what C15 says an applyFilter(f) makes of a selection
C15_Applied(selection, f) ==
    LET same == {i \in DOMAIN selection : selection[i].key = f.key}
        removes == /\ same # {}
                   /\ \/ ~matcherForKey(f.key).multiple
                      \/ \E i \in same : selection[i].exclude # f.exclude
    IN Append(IF removes THEN SelectSeq(selection, LAMBDA e : e.key # f.key)
              ELSE selection, f)

\* C15: a key whose matcher is not `multiple` has at most one entry in the selection
\* and the entries of one key have the same exclude flag; an applyFilter(f) leaves f
\* as the last entry, removes the earlier entries of f's key when the matcher is not
\* multiple or their exclude flag differs from f's, and clears the search text.
C15_SelectionInvariant ==
    [][/\ C15_Wellformed(FI_selection')
       /\ \A f \in FI_Filters :
             applyFilter(f) =>
                /\ FI_selection' # <<>>
                /\ FI_selection'[Len(FI_selection')] = f
                /\ FI_selection' = C15_Applied(FI_selection, f)
                /\ FI_search' = <<>>]_vars

\* an applyFilter has replaced the two entries of a `multiple` key whose exclude flag
\* differed from the filter's
C15_Witness ==
    /\ FI_last.op = "applyFilter"
    /\ FI_last.size = 2
    /\ FI_last.filter.exclude
    /\ FI_selection = <<FI_last.filter>>
    /\ FI_search = <<>>

\* the identifiers of the assets that the entries of an asset matcher stand for
C14_Identifiers(selection, matcher) ==
    LET entries == SelectSeq(selection, LAMBDA e : e.key = matcher.key)
    IN [i \in DOMAIN entries |->
          IF IsString(entries[i].value) THEN entries[i].value.str
          ELSE entries[i].value.identifier]

C14_Restored(matches, selection) ==
    \A i \in DOMAIN TF_matchers :
        LET matcher == TF_matchers[i]
        IN (matcher.kind = "asset" /\ matcher.keyValue \in MatchedKeys(matches)) =>
              LET value == MatchedGet(matches, matcher.keyValue)
              IN C14_Identifiers(selection, matcher) =
                    IF "single" \in DOMAIN value THEN <<value.single>> ELSE value.many

\* C14: after restoreSelection(matches) the entries of an asset matcher stand for the
\* assets whose identifiers `matches` holds for that matcher, also when the previous
\* selection held an entry of the same key for another asset.
C14_AssetRestored ==
    [][/\ \A matches \in FI_ParentMatches :
             FI_matchesChanged(matches) => C14_Restored(matches, FI_selection')
       /\ FI_watchMatches => C14_Restored(FI_emitted.matches, FI_selection')]_vars

\* the filter is not shown
FI_Fixed ==
    /\ FI_selection = <<>> /\ FI_search = <<>> /\ FI_selectedSuggestion = 0
    /\ FI_suggestedFilter = FI_noSuggestion /\ FI_emitted = FI_notPending
    /\ FI_last = [op |-> "none", filter |-> FI_noFilter, threw |-> FALSE, size |-> 0]

(***************************************************************************)
(* Managed asset form                                                      *)
(***************************************************************************)
\* the addresses typed into the form: "0xA" and "0xB" are valid addresses
AF_Addresses == {"", "0x", "0xA", "0xB"}
AF_Chains == {"ethereum", "optimism"}
isValidEthAddress(address) == address \in {"0xA", "0xB"}

\* what fetchTokenDetails resolves to for a token: fields that the chain does not
\* know are empty
AF_details(address, evmChain) ==
    CASE address = "0xA" /\ evmChain = "ethereum" ->
            [name |-> "Dai", symbol |-> "DAI", decimals |-> "18"]
      [] address = "0xA" /\ evmChain = "optimism" ->
            [name |-> "", symbol |-> "oDAI", decimals |-> "null"]
      [] address = "0xB" /\ evmChain = "ethereum" ->
            [name |-> "Usd", symbol |-> "", decimals |-> "6"]
      [] OTHER -> [name |-> "", symbol |-> "", decimals |-> "null"]

AF_noMessage == [given |-> "none"]

\* the form after it was mounted: empty for a new asset, filled and read-only for the
\* asset it edits (dontAutoFetch stays set when that asset has no chain)
AF_Init ==
    /\ AF_editableItem \in BOOLEAN
    /\ IF AF_editableItem
       THEN /\ AF_address = "0xA"
            /\ AF_evmChain \in {"", "ethereum"}
            /\ AF_name = "Dai" /\ AF_symbol = "DAI" /\ AF_decimals = "18"
            /\ AF_dontAutoFetch = (AF_evmChain = "")
       ELSE /\ AF_address = "" /\ AF_evmChain = ""
            /\ AF_name = "" /\ AF_symbol = "" /\ AF_decimals = "null"
            /\ AF_dontAutoFetch = FALSE
    /\ AF_fetching = FALSE
    /\ AF_calls = [i \in 1..AF_MaxCalls |-> Idle]
    /\ AF_message = AF_noMessage

\* watch([address, evmChain]) up to its await
AF_watch(address, evmChain) ==
    IF evmChain = ""
    THEN UNCHANGED <<AF_dontAutoFetch, AF_fetching, AF_calls>>
    ELSE IF AF_dontAutoFetch \/ ~isValidEthAddress(address)
    THEN /\ AF_dontAutoFetch' = FALSE
         /\ UNCHANGED <<AF_fetching, AF_calls>>
    ELSE /\ HasFree(AF_calls)
         /\ AF_fetching' = TRUE
         /\ AF_calls' = Start(AF_calls, [op |-> "fetchTokenDetails", address |-> address,
                                         evmChain |-> evmChain])
         /\ UNCHANGED AF_dontAutoFetch

\* v-model of the address field, which is disabled while submitting, while fetching
\* and for an edited asset
AF_inputAddress(address) ==
    /\ ~AF_fetching /\ ~AF_editableItem
    /\ address # AF_address
    /\ AF_address' = address
    /\ AF_watch(address, AF_evmChain)
    /\ UNCHANGED <<AF_editableItem, AF_evmChain, AF_name, AF_symbol, AF_decimals,
                   AF_message>>
    /\ UNCHANGED AF_others

\* v-model of the chain select, which is disabled for an edited asset
AF_selectChain(evmChain) ==
    /\ ~AF_editableItem
    /\ evmChain # AF_evmChain
    /\ AF_evmChain' = evmChain
    /\ AF_watch(AF_address, evmChain)
    /\ UNCHANGED <<AF_editableItem, AF_address, AF_name, AF_symbol, AF_decimals,
                   AF_message>>
    /\ UNCHANGED AF_others

\* watch([address, evmChain]) after its await
AF_fetched(i) ==
    /\ AF_calls[i].op = "fetchTokenDetails"
    /\ LET details == AF_details(AF_calls[i].address, AF_calls[i].evmChain)
       IN /\ AF_decimals' = IF details.decimals # "null" THEN details.decimals
                            ELSE AF_decimals
          /\ AF_name' = IF details.name # "" THEN details.name ELSE AF_name
          /\ AF_symbol' = IF details.symbol # "" THEN details.symbol ELSE AF_symbol
    /\ AF_fetching' = FALSE
    /\ AF_calls' = End(AF_calls, i)
    /\ UNCHANGED <<AF_editableItem, AF_address, AF_evmChain, AF_dontAutoFetch, AF_message>>
    /\ UNCHANGED AF_others

\* the validation errors of the underlying tokens as the API reports them: a string,
\* or per token (keyed by its index) the messages of its address and of its weight
AF_TokenErrors ==
    { <<[key |-> "0", address |-> <<"a0">>, weight |-> <<"w0">>]>>,
      <<[key |-> "0", address |-> <<>>, weight |-> <<"w0">>],
        [key |-> "1", address |-> <<"a1">>, weight |-> <<>>]>>,
      <<[key |-> "0", address |-> <<"a0">>, weight |-> <<>>]>> }
AF_ErrorMessages ==
    {[underlyingTokens |-> Str("invalid")]}
       \cup {[underlyingTokens |-> Many(e)] : e \in AF_TokenErrors}
       \cup {[schema |-> <<"s0">>]}

RECURSIVE AF_tokenMessages(_, _)
\* the loop of getUnderlyingTokenErrors over Object.values; `hasWeight` is the value
\* of `underlyingTokens.weight`, a property of the record and not of the token
AF_tokenMessages(tokens, hasWeight) ==
    IF tokens = <<>> THEN <<>>
    ELSE LET ut == Head(tokens)
         IN ut.address \o (IF hasWeight THEN ut.weight ELSE <<>>)
               \o AF_tokenMessages(Tail(tokens), hasWeight)

\* the messages C19 expects: for a string the string, for a record the address
\* messages and the weight messages of every token
C19_Expected(underlyingTokens) ==
    IF IsString(underlyingTokens) THEN <<underlyingTokens.str>>
    ELSE AF_tokenMessages(underlyingTokens.many, TRUE)

getUnderlyingTokenErrors(underlyingTokens) ==
    IF IsString(underlyingTokens) THEN <<underlyingTokens.str>>
    ELSE AF_tokenMessages(underlyingTokens.many,
                          \E i \in DOMAIN underlyingTokens.many :
                              underlyingTokens.many[i].key = "weight")

\* handleError(message) of a failed save: the description given to setMessage
handleError(message) ==
    /\ AF_message' =
          [given |-> message,
           description |-> IF "underlyingTokens" \in DOMAIN message
                           THEN getUnderlyingTokenErrors(message.underlyingTokens)
                           ELSE <<message.schema[1]>>]
    /\ AF_message' # AF_message
    /\ UNCHANGED <<AF_editableItem, AF_address, AF_evmChain, AF_name, AF_symbol,
                   AF_decimals, AF_fetching, AF_dontAutoFetch, AF_calls>>
    /\ UNCHANGED AF_others

AF_Next ==
    \/ \E address \in AF_Addresses : AF_inputAddress(address)
    \/ \E evmChain \in AF_Chains : AF_selectChain(evmChain)
    \/ \E i \in DOMAIN AF_calls : AF_fetched(i)
    \/ \E message \in AF_ErrorMessages : handleError(message)

AF_inFlight == Busy(AF_calls)

\* C17: `fetching` is true whenever a token-details request is in flight; once all
\* requests have completed, name, symbol and decimals hold the details returned for
\* the latest (address, chain) pair, a returned empty value overwriting nothing.
C17_TokenDetails ==
    /\ AF_inFlight # {} => AF_fetching
    /\ (/\ AF_inFlight = {} /\ ~AF_editableItem
        /\ AF_evmChain # "" /\ isValidEthAddress(AF_address)) =>
          LET details == AF_details(AF_address, AF_evmChain)
          IN /\ details.name # "" => AF_name = details.name
             /\ details.symbol # "" => AF_symbol = details.symbol
             /\ details.decimals # "null" => AF_decimals = details.decimals

Range(s) == {s[i] : i \in DOMAIN s}

\* C19: getUnderlyingTokenErrors returns, for a record of per-token errors, every
\* address message and every weight message of every underlying token, and for a
\* string the list holding just that string.
C19_UnderlyingTokenErrors ==
    (AF_message # AF_noMessage /\ "underlyingTokens" \in DOMAIN AF_message.given) =>
        /\ Range(AF_message.description) =
              Range(C19_Expected(AF_message.given.underlyingTokens))
        /\ Len(AF_message.description) =
              Len(C19_Expected(AF_message.given.underlyingTokens))

\* the form is not shown
AF_Fixed ==
    /\ AF_editableItem = FALSE /\ AF_address = "" /\ AF_evmChain = ""
    /\ AF_name = "" /\ AF_symbol = "" /\ AF_decimals = "null"
    /\ AF_fetching = FALSE /\ AF_dontAutoFetch = FALSE
    /\ AF_calls = [i \in 1..AF_MaxCalls |-> Idle]
    /\ AF_message = AF_noMessage

(***************************************************************************)
(* Asset update: the conflict dialog                                       *)
(***************************************************************************)
\* the identifiers in the order String sorting gives them
CD_Order == <<"a", "b", "c">>
CD_Identifiers == {CD_Order[i] : i \in DOMAIN CD_Order}
CD_Strategies == {"local", "remote"}

\* Object.keys(resolution): a key that was set to undefined is still a key
CD_keys(resolution) == {id \in CD_Identifiers : resolution[id] # "absent"}

\* Array.prototype.sort of a list of distinct identifiers
CD_sort(identifiers) == SelectSeq(CD_Order, LAMBDA id : id \in identifiers)

CD_noResolution == [id \in CD_Identifiers |-> "absent"]
CD_notEmitted == [id \in CD_Identifiers |-> "none"]

\* the dialog opens on a list of conflicts with nothing resolved
CD_Init ==
    /\ CD_conflicts \in SUBSET CD_Identifiers /\ CD_conflicts # {}
    /\ CD_resolution = CD_noResolution
    /\ CD_emitted = CD_notEmitted

\* the buttons for all conflicts: setResolution(strategy)
setResolution(strategy) ==
    /\ CD_resolution' = [id \in CD_Identifiers |->
                            IF id \in CD_conflicts THEN strategy ELSE "absent"]
    /\ CD_resolution' # CD_resolution
    /\ UNCHANGED <<CD_conflicts, CD_emitted>>
    /\ UNCHANGED CD_others

\* v-model of the v-btn-toggle of a row: a click on the other button sets its value,
\* a click on the active button sets undefined
CD_toggle(identifier, strategy) ==
    /\ identifier \in CD_conflicts
    /\ CD_resolution' =
          [CD_resolution EXCEPT ![identifier] =
              IF @ = strategy THEN "undefined" ELSE strategy]
    /\ UNCHANGED <<CD_conflicts, CD_emitted>>
    /\ UNCHANGED CD_others

\* the parent passes another list of conflicts
CD_conflictsChanged(conflicts) ==
    /\ conflicts # CD_conflicts /\ conflicts # {}
    /\ CD_conflicts' = conflicts
    /\ UNCHANGED <<CD_resolution, CD_emitted>>
    /\ UNCHANGED CD_others

\* computed `remaining`
remaining(conflicts, resolution) ==
    Cardinality(conflicts) - Cardinality(CD_keys(resolution))

\* computed `valid`
valid(conflicts, resolution) ==
    LET identifiers == CD_sort(conflicts)
        resolved == CD_sort(CD_keys(resolution))
    IN /\ Len(identifiers) = Len(resolved)
       /\ \A i \in DOMAIN resolved : resolved[i] = identifiers[i]

\* the Confirm button, disabled unless valid: resolve(resolution)
resolve ==
    /\ valid(CD_conflicts, CD_resolution)
    /\ CD_emitted' = CD_resolution
    /\ CD_emitted' # CD_emitted
    /\ UNCHANGED <<CD_conflicts, CD_resolution>>
    /\ UNCHANGED CD_others

CD_Next ==
    \/ \E strategy \in CD_Strategies : setResolution(strategy)
    \/ \E identifier \in CD_Identifiers, strategy \in CD_Strategies :
          CD_toggle(identifier, strategy)
    \/ \E conflicts \in SUBSET CD_Identifiers : CD_conflictsChanged(conflicts)
    \/ resolve

C18_Unresolved(conflicts, resolution) ==
    {id \in conflicts : resolution[id] \notin CD_Strategies}

C18_State(conflicts, resolution) ==
    /\ valid(conflicts, resolution) <=>
          /\ C18_Unresolved(conflicts, resolution) = {}
          /\ CD_keys(resolution) \subseteq conflicts
    /\ remaining(conflicts, resolution) =
          Cardinality(C18_Unresolved(conflicts, resolution))
    /\ remaining(conflicts, resolution) >= 0

\* C18: Confirm is enabled exactly when every conflict has the strategy 'local' or
\* 'remote' and no other identifier is resolved; `remaining` is the number of
\* conflicts without a strategy and never negative; after setResolution(s) every
\* conflict is resolved with s, remaining is 0 and valid is true.
C18_ConflictResolution ==
    [][/\ C18_State(CD_conflicts', CD_resolution')
       /\ \A s \in CD_Strategies :
             setResolution(s) =>
                /\ \A id \in CD_conflicts' : CD_resolution'[id] = s
                /\ remaining(CD_conflicts', CD_resolution') = 0
                /\ valid(CD_conflicts', CD_resolution')]_vars

\* the dialog is not shown
CD_Fixed ==
    /\ CD_conflicts = {} /\ CD_resolution = CD_noResolution
    /\ CD_emitted = CD_notEmitted

(***************************************************************************)
(* Create account wizard                                                   *)
(***************************************************************************)
CA_Usernames == {<<>>, <<"a">>, <<"a", ".", "-", "_">>, <<"a", " ">>, <<"@">>}
CA_Passwords == {<<>>, <<"p">>, <<"q">>}
CA_Errors == {"", "failed"}

\* the characters \w, '.' and '-' of the username rule
CA_WordChars == {"a", "_", "1", ".", "-"}

\* a username rule that accepts every non-empty text
C20_anyUsername(v) == v # <<>>

\* rule `isValidUsername`: !!(v && /^[\w.-]+$/.test(v))
isValidUsername(v) == v # <<>> /\ \A i \in DOMAIN v : v[i] \in CA_WordChars

\* validator `required` on a text
required(v) == v # <<>>

\* v$.$invalid of the rules on the three fields
CA_invalid(username, password, passwordConfirm) ==
    ~ /\ required(username) /\ isValidUsername(username)
      /\ required(password)
      /\ required(passwordConfirm) /\ passwordConfirm = password

CA_noEvent == [event |-> "none", tick |-> 0]
CA_emit(event) == CA_emitted' = event @@ [tick |-> 1 - CA_emitted.tick]

CA_Init ==
    /\ CA_step = CA_FirstStep
    /\ CA_username = <<>> /\ CA_password = <<>> /\ CA_passwordConfirm = <<>>
    /\ CA_userPrompted = FALSE
    /\ CA_premiumEnabled = FALSE /\ CA_premiumFormValid = FALSE
    /\ CA_syncDatabase = FALSE
    /\ CA_credentialsFormValid = FALSE
    /\ CA_loading = FALSE /\ CA_error = ""
    /\ CA_emitted = CA_noEvent

\* the parent changes the props `loading` and `error`
CA_props(loading, error) ==
    /\ <<loading, error>> # <<CA_loading, CA_error>>
    /\ CA_loading' = loading /\ CA_error' = error
    /\ UNCHANGED <<CA_step, CA_username, CA_password, CA_passwordConfirm, CA_userPrompted,
                   CA_premiumEnabled, CA_premiumFormValid, CA_syncDatabase,
                   CA_credentialsFormValid, CA_emitted>>
    /\ UNCHANGED CA_others

\* step 1: the buttons of the premium question
CA_premium(enabled) ==
    /\ CA_step = CA_FirstStep
    /\ CA_premiumEnabled' = enabled
    /\ CA_syncDatabase' = IF enabled THEN CA_syncDatabase ELSE FALSE
    /\ UNCHANGED <<CA_step, CA_username, CA_password, CA_passwordConfirm, CA_userPrompted,
                   CA_premiumFormValid, CA_credentialsFormValid, CA_loading, CA_error,
                   CA_emitted>>
    /\ UNCHANGED CA_others

\* step 1: @update:valid and @update:sync-database of the premium credentials
CA_premiumCredentials(isValid, syncDatabase) ==
    /\ CA_step = CA_FirstStep /\ CA_premiumEnabled
    /\ CA_premiumFormValid' = isValid
    /\ CA_syncDatabase' = syncDatabase
    /\ UNCHANGED <<CA_step, CA_username, CA_password, CA_passwordConfirm, CA_userPrompted,
                   CA_premiumEnabled, CA_credentialsFormValid, CA_loading, CA_error,
                   CA_emitted>>
    /\ UNCHANGED CA_others

\* step 1: the continue button
CA_continuePremium ==
    /\ CA_step = CA_FirstStep
    /\ ~(CA_premiumEnabled /\ ~CA_premiumFormValid) /\ ~CA_loading
    /\ CA_step' = 2
    /\ UNCHANGED <<CA_username, CA_password, CA_passwordConfirm, CA_userPrompted,
                   CA_premiumEnabled, CA_premiumFormValid, CA_syncDatabase,
                   CA_credentialsFormValid, CA_loading, CA_error, CA_emitted>>
    /\ UNCHANGED CA_others

\* step 2: the v-model of the three fields, and watch(v$) on the new values
CA_input(username, password, passwordConfirm) ==
    /\ CA_step = 2 /\ ~CA_loading
    /\ <<username, password, passwordConfirm>> #
          <<CA_username, CA_password, CA_passwordConfirm>>
    /\ \/ password = CA_password /\ passwordConfirm = CA_passwordConfirm
       \/ username = CA_username /\ passwordConfirm = CA_passwordConfirm
       \/ username = CA_username /\ password = CA_password
    /\ CA_username' = username
    /\ CA_password' = password
    /\ CA_passwordConfirm' = passwordConfirm
    /\ CA_credentialsFormValid' = ~CA_invalid(username, password, passwordConfirm)
    /\ UNCHANGED <<CA_step, CA_userPrompted, CA_premiumEnabled, CA_premiumFormValid,
                   CA_syncDatabase, CA_loading, CA_error, CA_emitted>>
    /\ UNCHANGED CA_others

\* step 2: the backup reminder checkbox
CA_prompted ==
    /\ CA_step = 2
    /\ CA_userPrompted' = ~CA_userPrompted
    /\ UNCHANGED <<CA_step, CA_username, CA_password, CA_passwordConfirm,
                   CA_premiumEnabled, CA_premiumFormValid, CA_syncDatabase,
                   CA_credentialsFormValid, CA_loading, CA_error, CA_emitted>>
    /\ UNCHANGED CA_others

\* step 2: the continue button
CA_continueCredentials ==
    /\ CA_step = 2
    /\ ~(~CA_credentialsFormValid \/ CA_loading \/ ~CA_userPrompted)
    /\ CA_step' = CA_LastStep
    /\ UNCHANGED <<CA_username, CA_password, CA_passwordConfirm, CA_userPrompted,
                   CA_premiumEnabled, CA_premiumFormValid, CA_syncDatabase,
                   CA_credentialsFormValid, CA_loading, CA_error, CA_emitted>>
    /\ UNCHANGED CA_others

Max(a, b) == IF a >= b THEN a ELSE b

\* steps 2 and 3: the back button
back ==
    /\ CA_step # CA_FirstStep /\ ~CA_loading
    /\ CA_step' = Max(CA_step - 1, CA_FirstStep)
    /\ IF CA_error # "" THEN CA_emit([event |-> "error:clear"])
       ELSE UNCHANGED CA_emitted
    /\ UNCHANGED <<CA_username, CA_password, CA_passwordConfirm, CA_userPrompted,
                   CA_premiumEnabled, CA_premiumFormValid, CA_syncDatabase,
                   CA_credentialsFormValid, CA_loading, CA_error>>
    /\ UNCHANGED CA_others

\* step 3: the create button
confirm ==
    /\ CA_step = CA_LastStep /\ ~CA_loading
    /\ CA_emit([event |-> "confirm",
                credentials |-> [username |-> CA_username, password |-> CA_password],
                premiumSetup |-> IF CA_premiumEnabled
                                 THEN [syncDatabase |-> CA_syncDatabase]
                                 ELSE [undefined |-> TRUE]])
    /\ UNCHANGED <<CA_step, CA_username, CA_password, CA_passwordConfirm, CA_userPrompted,
                   CA_premiumEnabled, CA_premiumFormValid, CA_syncDatabase,
                   CA_credentialsFormValid, CA_loading, CA_error>>
    /\ UNCHANGED CA_others

CA_Next ==
    \/ \E loading \in BOOLEAN, error \in CA_Errors : CA_props(loading, error)
    \/ \E enabled \in BOOLEAN : CA_premium(enabled)
    \/ \E isValid \in BOOLEAN, syncDatabase \in BOOLEAN :
          CA_premiumCredentials(isValid, syncDatabase)
    \/ CA_continuePremium
    \/ \E username \in CA_Usernames, password \in CA_Passwords,
          passwordConfirm \in CA_Passwords :
          CA_input(username, password, passwordConfirm)
    \/ CA_prompted
    \/ CA_continueCredentials
    \/ back
    \/ confirm

\* the rules as C20 states them: the username matches [\w.-]+, the password is
\* non-empty and equals its confirmation
C20_Rules(username, password, passwordConfirm) ==
    /\ Len(username) >= 1
    /\ \A i \in 1..Len(username) : username[i] \in {"a", "_", "1", ".", "-"}
    /\ Len(password) >= 1
    /\ passwordConfirm = password

C20_Emits(event) == CA_emitted'.tick # CA_emitted.tick /\ CA_emitted'.event = event

\* C20: the step is always 1, 2 or 3; step 3 is entered only from step 2 while the
\* rules hold and the backup reminder is checked; 'confirm' is only emitted at step 3,
\* with credentials that satisfy the rules and with premiumSetup exactly when premium
\* is enabled; back() emits 'error:clear' exactly when an error is set.
C20_Wizard ==
    [][/\ CA_step' \in CA_FirstStep..CA_LastStep
       /\ (CA_step' = CA_LastStep /\ CA_step # CA_LastStep) =>
             /\ CA_step = 2
             /\ C20_Rules(CA_username, CA_password, CA_passwordConfirm)
             /\ CA_userPrompted
       /\ C20_Emits("confirm") =>
             /\ CA_step = CA_LastStep
             /\ C20_Rules(CA_emitted'.credentials.username,
                          CA_emitted'.credentials.password, CA_passwordConfirm)
             /\ CA_userPrompted
             /\ ("syncDatabase" \in DOMAIN CA_emitted'.premiumSetup) <=> CA_premiumEnabled
       /\ back => (C20_Emits("error:clear") <=> CA_error # "")
       /\ C20_Emits("error:clear") => back]_vars

\* an account with premium was confirmed at step 3 under a username made of a word
\* character, '.', '-' and '_'
C20_Witness ==
    /\ CA_emitted.event = "confirm"
    /\ "syncDatabase" \in DOMAIN CA_emitted.premiumSetup
    /\ CA_emitted.credentials.username = <<"a", ".", "-", "_">>
    /\ CA_step = CA_LastStep

\* the wizard is not shown
CA_Fixed ==
    /\ CA_step = CA_FirstStep
    /\ CA_username = <<>> /\ CA_password = <<>> /\ CA_passwordConfirm = <<>>
    /\ CA_userPrompted = FALSE
    /\ CA_premiumEnabled = FALSE /\ CA_premiumFormValid = FALSE
    /\ CA_syncDatabase = FALSE
    /\ CA_credentialsFormValid = FALSE
    /\ CA_loading = FALSE /\ CA_error = ""
    /\ CA_emitted = CA_noEvent

(***************************************************************************)
(* Manual balance form                                                     *)
(***************************************************************************)
MB_Labels == {"a", "b", "c"}
MB_noErrors == [label |-> "absent", amount |-> FALSE]

\* setup with edit null: the store is destructured, so `manualLabels` is the array
\* the getter held at that moment
MB_Init ==
    /\ MB_edit = ""
    /\ MB_label = ""
    /\ MB_errors = MB_noErrors
    /\ MB_store \in SUBSET {"a", "b"}
    /\ MB_manualLabels = MB_store

\* watch(label): the errors it leaves
MB_watchLabel(edit, label, errors) ==
    IF edit # "" THEN errors
    ELSE IF label \in MB_manualLabels
    THEN IF errors.label # "absent" THEN errors
         ELSE [errors EXCEPT !.label = "exists"]
    ELSE [errors EXCEPT !.label = "absent"]

\* v-model of the label field, then watch(label)
MB_inputLabel(label) ==
    /\ label # MB_label
    /\ MB_label' = label
    /\ UNCHANGED MB_edit
    /\ MB_errors' = MB_watchLabel(MB_edit, label, MB_errors)
    /\ UNCHANGED <<MB_store, MB_manualLabels>>
    /\ UNCHANGED MB_others

\* watch(edit): setBalance for a balance, reset() for null (the form reset empties
\* the label); then watch(label) when the label has changed
MB_editChanged(balance) ==
    /\ balance # MB_edit
    /\ balance \in MB_store \cup {""}
    /\ MB_edit' = balance
    /\ MB_label' = balance
    /\ LET errors == IF balance = "" THEN MB_noErrors ELSE MB_errors
       IN MB_errors' = IF balance # MB_label THEN MB_watchLabel(balance, balance, errors)
                       ELSE errors
    /\ UNCHANGED <<MB_store, MB_manualLabels>>
    /\ UNCHANGED MB_others

\* save() of a new balance: the backend adds it and the form is cleared, or it
\* answers with validation errors for the label and the amount
MB_save(success) ==
    /\ MB_edit = "" /\ MB_label # ""
    /\ success <=> MB_label \notin MB_store
    /\ IF success
       THEN /\ MB_store' = MB_store \cup {MB_label}
            /\ MB_label' = ""
            /\ MB_errors' = MB_watchLabel(MB_edit, "", MB_noErrors)
       ELSE /\ MB_errors' = [label |-> "server", amount |-> TRUE]
            /\ UNCHANGED <<MB_store, MB_label>>
    /\ UNCHANGED <<MB_edit, MB_manualLabels>>
    /\ UNCHANGED MB_others

\* a manual balance is deleted in the table while the form stays mounted
MB_deleted(label) ==
    /\ label \in MB_store /\ label # MB_edit
    /\ MB_store' = MB_store \ {label}
    /\ UNCHANGED <<MB_edit, MB_label, MB_errors, MB_manualLabels>>
    /\ UNCHANGED MB_others

MB_Next ==
    \/ \E label \in MB_Labels \cup {""} : MB_inputLabel(label)
    \/ \E balance \in MB_Labels \cup {""} : MB_editChanged(balance)
    \/ \E success \in BOOLEAN : MB_save(success)
    \/ \E label \in MB_Labels : MB_deleted(label)

\* C21: in add mode, after every change of the label errors.label is non-empty if
\* the label is the label of an existing manual balance and absent otherwise; in
\* edit mode a change of the label leaves errors as it is.
C21_LabelErrors ==
    [][\A label \in MB_Labels \cup {""} :
          MB_inputLabel(label) =>
             IF MB_edit # "" THEN MB_errors' = MB_errors
             ELSE IF label \in MB_store THEN MB_errors'.label # "absent"
             ELSE /\ MB_errors'.label = "absent"
                  /\ MB_errors'.amount = MB_errors.amount]_vars

\* the form is not shown
MB_Fixed ==
    /\ MB_edit = "" /\ MB_label = "" /\ MB_errors = MB_noErrors
    /\ MB_store = {} /\ MB_manualLabels = {}

(***************************************************************************)
(* Sync indicator                                                          *)
(***************************************************************************)
SI_null == "null"
SI_Files == {"csv"}
SI_BackendErrors == {"no such file", "invalid csv"}
SI_Outcomes == {[ok |-> TRUE, message |-> ""]}
               \cup {[ok |-> FALSE, message |-> e] : e \in SI_BackendErrors}
SI_noMessage == [success |-> FALSE, description |-> SI_null]

SI_Init ==
    /\ SI_visible = FALSE
    /\ SI_syncAction = "upload"
    /\ SI_displayConfirmation = FALSE
    /\ SI_confirmChecked = FALSE
    /\ SI_pending = FALSE
    /\ SI_isSyncing = FALSE
    /\ SI_canRequestData = TRUE
    /\ SI_balanceSnapshotFile = SI_null
    /\ SI_locationDataSnapshotFile = SI_null
    /\ SI_importSnapshotLoading = FALSE
    /\ SI_calls = [c \in 1..SI_MaxCalls |-> "idle"]
    /\ SI_message = SI_noMessage
    /\ SI_timers = 0
    /\ SI_loggedOut = FALSE

SI_syncVars == <<SI_visible, SI_syncAction, SI_displayConfirmation, SI_confirmChecked,
                 SI_pending, SI_isSyncing, SI_canRequestData>>
SI_importVars == <<SI_balanceSnapshotFile, SI_locationDataSnapshotFile,
                   SI_importSnapshotLoading, SI_calls, SI_message, SI_timers>>

\* v-model of the menu
SI_menu(open) ==
    /\ ~SI_loggedOut /\ ~SI_displayConfirmation
    /\ open # SI_visible
    /\ SI_visible' = open
    /\ UNCHANGED <<SI_syncAction, SI_displayConfirmation, SI_confirmChecked, SI_pending,
                   SI_isSyncing, SI_canRequestData, SI_loggedOut>>
    /\ UNCHANGED SI_importVars
    /\ UNCHANGED SI_others

\* the sync buttons (disabled while pending) emit `action`
showConfirmation(action) ==
    /\ ~SI_loggedOut /\ SI_visible /\ ~SI_pending
    /\ SI_visible' = FALSE
    /\ SI_syncAction' = action
    /\ SI_displayConfirmation' = TRUE
    /\ UNCHANGED <<SI_confirmChecked, SI_pending, SI_isSyncing, SI_canRequestData,
                   SI_loggedOut>>
    /\ UNCHANGED SI_importVars
    /\ UNCHANGED SI_others

\* v-model of the checkbox in the slot of the confirmation dialog
SI_check(checked) ==
    /\ ~SI_loggedOut /\ SI_displayConfirmation
    /\ checked # SI_confirmChecked
    /\ SI_confirmChecked' = checked
    /\ UNCHANGED <<SI_visible, SI_syncAction, SI_displayConfirmation, SI_pending,
                   SI_isSyncing, SI_canRequestData, SI_loggedOut>>
    /\ UNCHANGED SI_importVars
    /\ UNCHANGED SI_others

\* mutant of cancel: the dialog is closed and the box is left as it is
C24_cancelKeepsCheck ==
    /\ ~SI_loggedOut /\ SI_displayConfirmation
    /\ SI_displayConfirmation' = FALSE
    /\ UNCHANGED <<SI_visible, SI_syncAction, SI_confirmChecked, SI_pending,
                   SI_isSyncing, SI_canRequestData, SI_loggedOut>>
    /\ UNCHANGED SI_importVars
    /\ UNCHANGED SI_others

cancel ==
    /\ ~SI_loggedOut /\ SI_displayConfirmation
    /\ SI_displayConfirmation' = FALSE
    /\ SI_confirmChecked' = FALSE
    /\ UNCHANGED <<SI_visible, SI_syncAction, SI_pending, SI_isSyncing,
                   SI_canRequestData, SI_loggedOut>>
    /\ UNCHANGED SI_importVars
    /\ UNCHANGED SI_others

\* the primary action of the dialog (disabled unless checked, loading while a
\* sync runs): performSync up to its await; forceSync starts the task
performSync ==
    /\ ~SI_loggedOut /\ SI_displayConfirmation /\ SI_confirmChecked /\ ~SI_isSyncing
    /\ ~SI_pending
    /\ SI_pending' = TRUE
    /\ SI_canRequestData' = IF SI_syncAction = "download" THEN FALSE
                            ELSE SI_canRequestData
    /\ SI_isSyncing' = TRUE
    /\ UNCHANGED <<SI_visible, SI_syncAction, SI_displayConfirmation, SI_confirmChecked,
                   SI_loggedOut>>
    /\ UNCHANGED SI_importVars
    /\ UNCHANGED SI_others

\* the task ends: watch(isSyncing) with current false and prev true
SI_taskEnds ==
    /\ SI_isSyncing
    /\ SI_isSyncing' = FALSE
    /\ SI_displayConfirmation' = FALSE
    /\ SI_confirmChecked' = FALSE
    /\ UNCHANGED <<SI_visible, SI_syncAction, SI_pending, SI_canRequestData,
                   SI_loggedOut>>
    /\ UNCHANGED SI_importVars
    /\ UNCHANGED SI_others

\* forceSync returns: the rest of performSync
SI_forceSyncReturns ==
    /\ SI_pending /\ ~SI_isSyncing
    /\ SI_pending' = FALSE
    /\ UNCHANGED <<SI_visible, SI_syncAction, SI_displayConfirmation, SI_confirmChecked,
                   SI_isSyncing, SI_canRequestData, SI_loggedOut>>
    /\ UNCHANGED SI_importVars
    /\ UNCHANGED SI_others

\* @selected of the two file uploads
SI_selected(balance, location) ==
    /\ ~SI_loggedOut
    /\ <<balance, location>> # <<SI_balanceSnapshotFile, SI_locationDataSnapshotFile>>
    /\ \/ balance = SI_balanceSnapshotFile
       \/ location = SI_locationDataSnapshotFile
    /\ SI_balanceSnapshotFile' = balance
    /\ SI_locationDataSnapshotFile' = location
    /\ UNCHANGED <<SI_importSnapshotLoading, SI_calls, SI_message, SI_timers,
                   SI_loggedOut>>
    /\ UNCHANGED SI_syncVars
    /\ UNCHANGED SI_others

importFilesCompleted ==
    SI_balanceSnapshotFile # SI_null /\ SI_locationDataSnapshotFile # SI_null

\* importSnapshot up to its await
importSnapshot ==
    /\ ~SI_loggedOut
    /\ IF ~importFilesCompleted
       THEN UNCHANGED <<SI_importVars, SI_loggedOut>>
       ELSE /\ \E c \in 1..SI_MaxCalls :
                 /\ SI_calls[c] = "idle"
                 /\ \A d \in 1..(c - 1) : SI_calls[d] # "idle"
                 /\ SI_calls' = [SI_calls EXCEPT ![c] = "await"]
            /\ SI_timers + Cardinality({c \in 1..SI_MaxCalls : SI_calls[c] = "await"})
                  < SI_MaxTimers
            /\ SI_importSnapshotLoading' = TRUE
            /\ UNCHANGED <<SI_balanceSnapshotFile, SI_locationDataSnapshotFile,
                           SI_message, SI_timers, SI_loggedOut>>
    /\ UNCHANGED SI_syncVars
    /\ UNCHANGED SI_others

\* mutant of SI_failed: a fixed description
C22_failedWithoutError(message) == [success |-> FALSE, description |-> "failed"]

\* setMessage of the failure: failed_description with { message }
SI_failed(message) == [success |-> FALSE, description |-> message]

SI_succeeded == [success |-> TRUE, description |-> ""]

\* the backend answers: importSnapshot from the catch to its end
SI_importReturns(c, outcome) ==
    /\ SI_calls[c] = "await"
    /\ SI_calls' = [SI_calls EXCEPT ![c] = "idle"]
    /\ IF ~outcome.ok
       THEN /\ SI_message' = SI_failed(outcome.message)
            /\ UNCHANGED SI_timers
       ELSE /\ SI_message' = SI_succeeded
            /\ SI_timers' = SI_timers + 1
    /\ SI_importSnapshotLoading' = FALSE
    /\ SI_balanceSnapshotFile' = SI_null
    /\ SI_locationDataSnapshotFile' = SI_null
    /\ UNCHANGED SI_loggedOut
    /\ UNCHANGED SI_syncVars
    /\ UNCHANGED SI_others

\* 3 seconds later: actionLogout
SI_timeout ==
    /\ SI_timers > 0
    /\ SI_timers' = SI_timers - 1
    /\ SI_loggedOut' = TRUE
    /\ UNCHANGED <<SI_balanceSnapshotFile, SI_locationDataSnapshotFile,
                   SI_importSnapshotLoading, SI_calls, SI_message>>
    /\ UNCHANGED SI_syncVars
    /\ UNCHANGED SI_others

SI_Next ==
    \/ \E open \in BOOLEAN : SI_menu(open)
    \/ \E action \in {"upload", "download"} : showConfirmation(action)
    \/ \E checked \in BOOLEAN : SI_check(checked)
    \/ cancel
    \/ performSync
    \/ SI_taskEnds
    \/ SI_forceSyncReturns
    \/ \E balance, location \in SI_Files \cup {SI_null} : SI_selected(balance, location)
    \/ importSnapshot
    \/ \E c \in 1..SI_MaxCalls, outcome \in SI_Outcomes : SI_importReturns(c, outcome)
    \/ SI_timeout

\* C22: importSnapshot changes nothing unless both files are selected; when the
\* backend has answered, importSnapshotLoading is false and both files are null,
\* after a success and after a failure; a logout timer is set exactly after a
\* success, and after a failure the message shown carries the backend's error.
C22_ImportSnapshot ==
    [][/\ (importSnapshot /\ ~importFilesCompleted)
            => UNCHANGED <<SI_importVars, SI_syncVars, SI_loggedOut>>
       /\ \A c \in 1..SI_MaxCalls, outcome \in SI_Outcomes :
            SI_importReturns(c, outcome) =>
               /\ ~SI_importSnapshotLoading'
               /\ SI_balanceSnapshotFile' = SI_null
               /\ SI_locationDataSnapshotFile' = SI_null
               /\ SI_timers' = SI_timers + (IF outcome.ok THEN 1 ELSE 0)
               /\ ~outcome.ok =>
                     /\ ~SI_message'.success
                     /\ SI_message'.description = outcome.message]_vars

\* a failed import has ended while a file selected during the call was set, and
\* no logout is scheduled
C22_Witness ==
    /\ SI_message.description \in SI_BackendErrors
    /\ ~SI_importSnapshotLoading
    /\ SI_balanceSnapshotFile = SI_null
    /\ SI_timers = 0 /\ ~SI_loggedOut
    /\ \E c \in 1..SI_MaxCalls : SI_calls[c] = "await"

\* C24: whenever the confirmation dialog is closed the box is unchecked; cancel
\* and the end of the sync task close the dialog and uncheck the box; the box
\* becomes checked only while the dialog is open.
C24_FreshConfirmation ==
    /\ [](~SI_displayConfirmation => ~SI_confirmChecked)
    /\ [][/\ (cancel \/ SI_taskEnds) => (~SI_displayConfirmation' /\ ~SI_confirmChecked')
          /\ (~SI_confirmChecked /\ SI_confirmChecked')
                => (SI_displayConfirmation /\ SI_displayConfirmation')]_vars

\* the dialog is opened again after a sync that was confirmed, and the box is
\* unchecked
C24_Witness ==
    /\ SI_displayConfirmation /\ ~SI_confirmChecked
    /\ ~SI_canRequestData /\ ~SI_isSyncing

SI_Fixed ==
    /\ SI_visible = FALSE
    /\ SI_syncAction = "upload"
    /\ SI_displayConfirmation = FALSE
    /\ SI_confirmChecked = FALSE
    /\ SI_pending = FALSE
    /\ SI_isSyncing = FALSE
    /\ SI_canRequestData = TRUE
    /\ SI_balanceSnapshotFile = SI_null
    /\ SI_locationDataSnapshotFile = SI_null
    /\ SI_importSnapshotLoading = FALSE
    /\ SI_calls = <<>>
    /\ SI_message = SI_noMessage
    /\ SI_timers = 0
    /\ SI_loggedOut = FALSE

(***************************************************************************)
(* Total of a snapshot                                                     *)
(***************************************************************************)
\* amounts are counted in quarters; the decimal text of q quarters (toFixed)
ST_Fractions == <<"", ".25", ".5", ".75">>
ST_Units == <<"0", "1", "2", "3", "4", "5", "6", "7", "8">>
toFixed(q) == ST_Units[(q \div 4) + 1] \o ST_Fractions[(q % 4) + 1]
bigNumberify(text) == CHOOSE q \in 0..(2 * ST_MaxQuarters) : toFixed(q) = text

ST_Locations == {"total", "kraken"}
ST_UsdValues == {0, 2, 4}
ST_Entries == [location : ST_Locations, usdValue : ST_UsdValues]
ST_Currencies == {"USD", "EUR"}
\* exchangeRate(currencySymbol): 1 for USD, 2 for the other currency
fiatExchangeRate == IF ST_currencySymbol = "USD" THEN 1 ELSE 2

\* the texts the input can hold: those whose amount in USD is a number of quarters
ST_Texts == {""} \cup {toFixed(q * fiatExchangeRate) : q \in 0..ST_MaxQuarters}

ST_Totals(list) == {i \in 1..Len(list) : list[i].location = "total"}
\* findIndex: the first index, or 0 (for -1)
ST_findIndex(list) ==
    IF ST_Totals(list) = {} THEN 0
    ELSE CHOOSE i \in ST_Totals(list) : \A j \in ST_Totals(list) : i <= j

ST_Lists == {list \in UNION {[1..n -> ST_Entries] : n \in 0..ST_MaxLen} :
                Cardinality(ST_Totals(list)) <= 1}

\* onBeforeMount
ST_mounted(list) ==
    IF ST_findIndex(list) = 0 THEN ""
    ELSE toFixed(list[ST_findIndex(list)].usdValue * fiatExchangeRate)

ST_noEmit == [count |-> 0, value |-> <<>>]

ST_Init ==
    /\ ST_value \in ST_Lists
    /\ ST_currencySymbol \in ST_Currencies
    /\ ST_total = ST_mounted(ST_value)
    /\ ST_emitted = ST_noEmit
    /\ ST_threw = FALSE

\* v-model of the amount input
ST_inputTotal(text) ==
    /\ text # ST_total
    /\ ST_total' = text
    /\ UNCHANGED <<ST_value, ST_currencySymbol, ST_emitted, ST_threw>>
    /\ UNCHANGED ST_others

RECURSIVE ST_sum(_)
ST_sum(list) == IF list = <<>> THEN 0 ELSE Head(list).usdValue + ST_sum(Tail(list))

locationTotal ==
    ST_sum([i \in 1..Len(ST_value) |->
              IF ST_value[i].location = "total"
              THEN [ST_value[i] EXCEPT !.usdValue = 0] ELSE ST_value[i]])

\* the suggestion of the location total
setTotal(number) ==
    /\ number <= ST_MaxQuarters
    /\ ST_total' = toFixed(number * fiatExchangeRate)
    /\ ST_total' # ST_total
    /\ UNCHANGED <<ST_value, ST_currencySymbol, ST_emitted, ST_threw>>
    /\ UNCHANGED ST_others

\* mutant of numericTotal: the text is taken as an amount in USD
C23_numericTotalUnconverted ==
    IF ST_total = "" THEN 0 ELSE bigNumberify(ST_total)

numericTotal ==
    IF ST_total = "" THEN 0
    ELSE IF ST_currencySymbol = "USD" THEN bigNumberify(ST_total)
    ELSE bigNumberify(ST_total) \div fiatExchangeRate

\* save(): newValue is a copy of the array that holds the same entries, so the
\* assignment changes the entry of the prop as well; with index -1 the
\* assignment to newValue[-1].usdValue throws
ST_save ==
    /\ ST_emitted.count < ST_MaxEmits
    /\ LET index == ST_findIndex(ST_value)
       IN IF index = 0
          THEN /\ ST_threw' = TRUE
               /\ UNCHANGED <<ST_value, ST_emitted>>
          ELSE /\ ST_value' = [ST_value EXCEPT ![index].usdValue = numericTotal]
               /\ ST_emitted' = [count |-> ST_emitted.count + 1, value |-> ST_value']
               /\ ST_threw' = FALSE
    /\ UNCHANGED <<ST_currencySymbol, ST_total>>
    /\ UNCHANGED ST_others

ST_Next ==
    \/ \E text \in ST_Texts : ST_inputTotal(text)
    \/ setTotal(locationTotal)
    \/ ST_save

\* C23: save emits the list with the usdValue of the 'total' entry replaced by the
\* entered total in USD (zero for an empty input), the other entries and the
\* length as they were; without a 'total' entry save fails, emits nothing and
\* leaves the entries as they were.
C23_SaveTotal ==
    [][ST_save =>
         IF \E i \in 1..Len(ST_value) : ST_value[i].location = "total"
         THEN /\ ST_emitted'.count = ST_emitted.count + 1
              /\ Len(ST_emitted'.value) = Len(ST_value)
              /\ \A i \in 1..Len(ST_value) :
                    IF ST_value[i].location = "total"
                    THEN /\ ST_emitted'.value[i].location = "total"
                         /\ IF ST_total = "" THEN ST_emitted'.value[i].usdValue = 0
                            ELSE toFixed(ST_emitted'.value[i].usdValue * fiatExchangeRate)
                                   = ST_total
                    ELSE ST_emitted'.value[i] = ST_value[i]
         ELSE /\ ST_threw'
              /\ ST_emitted' = ST_emitted
              /\ ST_value' = ST_value]_vars

\* a total entered in the other currency was saved next to another location
C23_Witness ==
    /\ ST_emitted.count > 0 /\ ST_currencySymbol = "EUR"
    /\ Len(ST_emitted.value) = 2
    /\ ST_total = "1.5"
    /\ \E i \in 1..2 : /\ ST_emitted.value[i].location = "total"
                       /\ ST_emitted.value[i].usdValue = 3

\* the form is not shown
ST_Fixed ==
    /\ ST_value = <<>>
    /\ ST_currencySymbol = "USD"
    /\ ST_total = ""
    /\ ST_emitted = ST_noEmit
    /\ ST_threw = FALSE

(***************************************************************************)
(* NFT image rendering setting                                             *)
(***************************************************************************)
\* what the combobox can hold, and the domain of each
NF_Values == {"a.com", "https://a.com/nft", "b.org"}
getDomain(val) == IF val = "https://a.com/nft" THEN "a.com" ELSE val
NF_Domains == {getDomain(val) : val \in NF_Values}

NF_SeqsOf(S) == UNION {[1..n -> S] : n \in 0..NF_MaxLen}
NF_distinct(list) == \A i, j \in 1..Len(list) : list[i] = list[j] => i = j

\* filter(uniqueStrings): the first occurrence of every string
RECURSIVE NF_unique(_, _)
NF_unique(list, seen) ==
    IF list = <<>> THEN <<>>
    ELSE IF Head(list) \in seen THEN NF_unique(Tail(list), seen)
    ELSE <<Head(list)>> \o NF_unique(Tail(list), seen \cup {Head(list)})

NF_noUpdate == [count |-> 0, value |-> <<>>, confirmed |-> FALSE]

\* onMounted with the stored whitelist
NF_Init ==
    /\ NF_whitelist \in {list \in NF_SeqsOf(NF_Domains) : NF_distinct(list)}
    /\ NF_whitelistedDomainsForNftImages = NF_whitelist
    /\ NF_showUpdateWhitelistConfirmation = FALSE
    /\ NF_updates = NF_noUpdate

changed == NF_whitelistedDomainsForNftImages # NF_whitelist

\* v-model and @change of the combobox
onChange(value) ==
    /\ ~NF_showUpdateWhitelistConfirmation
    /\ NF_whitelistedDomainsForNftImages' =
          NF_unique([i \in 1..Len(value) |-> getDomain(value[i])], {})
    /\ UNCHANGED <<NF_whitelist, NF_showUpdateWhitelistConfirmation, NF_updates>>
    /\ UNCHANGED NF_others

\* updateWhitelist: updateSetting stores the list (watch(whitelist) then sets the
\* list it already holds) or fails and leaves the stored one
updateWhitelist(stored) ==
    /\ NF_updates.count < NF_MaxUpdates
    /\ NF_updates' = [count |-> NF_updates.count + 1,
                      value |-> NF_whitelistedDomainsForNftImages,
                      confirmed |-> NF_showUpdateWhitelistConfirmation]
    /\ NF_whitelist' = IF stored THEN NF_whitelistedDomainsForNftImages
                       ELSE NF_whitelist
    /\ NF_showUpdateWhitelistConfirmation' = FALSE
    /\ UNCHANGED NF_whitelistedDomainsForNftImages
    /\ UNCHANGED NF_others

\* @confirm of the dialog
NF_confirm(stored) ==
    /\ NF_showUpdateWhitelistConfirmation
    /\ updateWhitelist(stored)

\* @cancel of the dialog
NF_reset ==
    /\ NF_showUpdateWhitelistConfirmation
    /\ NF_whitelistedDomainsForNftImages' = NF_whitelist
    /\ NF_showUpdateWhitelistConfirmation' = FALSE
    /\ UNCHANGED <<NF_whitelist, NF_updates>>
    /\ UNCHANGED NF_others

\* mutant of confirmUpdated: every list is stored at once
C25_confirmUpdatedAtOnce(stored) ==
    /\ ~NF_showUpdateWhitelistConfirmation
    /\ updateWhitelist(stored)

\* the save button
confirmUpdated(stored) ==
    /\ ~NF_showUpdateWhitelistConfirmation
    /\ IF Len(NF_whitelistedDomainsForNftImages) = 0 \/ ~changed
       THEN updateWhitelist(stored)
       ELSE /\ stored
            /\ NF_showUpdateWhitelistConfirmation' = TRUE
            /\ UNCHANGED <<NF_whitelist, NF_whitelistedDomainsForNftImages, NF_updates>>
            /\ UNCHANGED NF_others

\* the stored whitelist changes: watch(whitelist)
NF_watchWhitelist(data) ==
    /\ data # NF_whitelist
    /\ NF_distinct(data)
    /\ NF_whitelist' = data
    /\ NF_whitelistedDomainsForNftImages' = data
    /\ UNCHANGED <<NF_showUpdateWhitelistConfirmation, NF_updates>>
    /\ UNCHANGED NF_others

NF_Next ==
    \/ \E value \in NF_SeqsOf(NF_Values) : onChange(value)
    \/ \E stored \in BOOLEAN : confirmUpdated(stored)
    \/ \E stored \in BOOLEAN : NF_confirm(stored)
    \/ NF_reset
    \/ \E data \in NF_SeqsOf(NF_Domains) : NF_watchWhitelist(data)

\* C25: the stored whitelist changes only with a call of updateSetting or from
\* outside; updateSetting is called with the edited list, without the dialog only
\* when that list is empty or equal to the stored one and otherwise from the
\* dialog's confirm; cancel sets the edited list to the stored one and closes the
\* dialog; after onChange the edited list holds no domain twice.
C25_Whitelist ==
    [][/\ NF_updates' # NF_updates =>
            /\ NF_updates'.value = NF_whitelistedDomainsForNftImages
            /\ \/ NF_showUpdateWhitelistConfirmation
               \/ NF_whitelistedDomainsForNftImages = <<>>
               \/ NF_whitelistedDomainsForNftImages = NF_whitelist
       /\ (NF_whitelist' # NF_whitelist /\ NF_updates' = NF_updates) =>
            \E data \in NF_SeqsOf(NF_Domains) : NF_watchWhitelist(data)
       /\ NF_reset =>
            /\ NF_whitelistedDomainsForNftImages' = NF_whitelist'
            /\ ~NF_showUpdateWhitelistConfirmation'
       /\ (\E value \in NF_SeqsOf(NF_Values) : onChange(value)) =>
            NF_distinct(NF_whitelistedDomainsForNftImages')
       /\ changed' <=> ~(/\ Len(NF_whitelistedDomainsForNftImages') = Len(NF_whitelist')
                         /\ \A i \in 1..Len(NF_whitelist') :
                               NF_whitelistedDomainsForNftImages'[i] = NF_whitelist'[i])
      ]_vars

\* a changed list of two domains was stored from the dialog
C25_Witness ==
    /\ NF_updates.confirmed
    /\ Len(NF_updates.value) = 2
    /\ NF_whitelist = NF_updates.value
    /\ ~NF_showUpdateWhitelistConfirmation

\* the setting is not shown
NF_Fixed ==
    /\ NF_whitelist = <<>>
    /\ NF_whitelistedDomainsForNftImages = <<>>
    /\ NF_showUpdateWhitelistConfirmation = FALSE
    /\ NF_updates = NF_noUpdate

(***************************************************************************)
(* Blockchain account selector: selectable accounts                        *)
(***************************************************************************)
SA_Addresses == {"0x1", "0x2"}
SA_Chains == {"eth", "optimism"}
SA_Tracked == [address : SA_Addresses, chain : SA_Chains]
SA_All(address) == [address |-> address, chain |-> "ALL"]

\* the accounts of the store: every address at most once per chain
SA_Stores ==
    {list \in UNION {[1..n -> SA_Tracked] : n \in 0..SA_MaxAccounts} :
        \A i, j \in 1..Len(list) : list[i] = list[j] => i = j}

\* lodash uniqBy(list, 'address'): the first account of every address
RECURSIVE SA_uniqBy(_, _)
SA_uniqBy(list, seen) ==
    IF list = <<>> THEN <<>>
    ELSE IF Head(list).address \in seen THEN SA_uniqBy(Tail(list), seen)
    ELSE <<Head(list)>> \o SA_uniqBy(Tail(list), seen \cup {Head(list).address})

SA_entries(list, address) ==
    Cardinality({i \in 1..Len(list) : list[i].address = address})

\* the 'ALL' accounts pushed by the loop over the entries, in the order in which
\* the addresses were first met
RECURSIVE SA_pushed(_, _, _)
SA_pushed(list, rest, seen) ==
    IF rest = <<>> THEN <<>>
    ELSE IF Head(rest).address \in seen THEN SA_pushed(list, Tail(rest), seen)
    ELSE (IF SA_entries(list, Head(rest).address) > 1
          THEN <<SA_All(Head(rest).address)>> ELSE <<>>)
         \o SA_pushed(list, Tail(rest), seen \cup {Head(rest).address})

\* filteredAccounts before the push, and whether it is the array of the store
SA_isStoreArray(chains, unique) == ~unique /\ chains = {}
SA_filtered(accounts, chains, unique) ==
    LET blockchainAccounts == IF unique THEN SA_uniqBy(accounts, {}) ELSE accounts
    IN IF chains = {} THEN blockchainAccounts
       ELSE SelectSeq(blockchainAccounts,
                      LAMBDA a : a.chain = "ALL" \/ a.chain \in chains)

selectableAccounts(accounts, chains, multichain, unique) ==
    LET filteredAccounts == SA_filtered(accounts, chains, unique)
    IN IF multichain
       THEN filteredAccounts \o SA_pushed(filteredAccounts, filteredAccounts, {})
       ELSE filteredAccounts

\* the first evaluation, with the props the selector is created with
SA_Init ==
    /\ SA_accounts \in SA_Stores
    /\ SA_chains = {}
    /\ SA_multichain = FALSE
    /\ SA_unique = FALSE
    /\ SA_selectable = SA_accounts

\* a prop changes and selectableAccounts is evaluated again; the push goes to
\* the array of the store when filteredAccounts is that array
SA_evaluate(chains, multichain, unique) ==
    /\ <<chains, multichain, unique>> # <<SA_chains, SA_multichain, SA_unique>>
    /\ SA_chains' = chains
    /\ SA_multichain' = multichain
    /\ SA_unique' = unique
    /\ SA_selectable' = selectableAccounts(SA_accounts, chains, multichain, unique)
    /\ Len(SA_selectable') <= SA_MaxAccounts + SA_MaxPushed
    /\ SA_accounts' = IF SA_isStoreArray(chains, unique) THEN SA_selectable'
                      ELSE SA_accounts
    /\ UNCHANGED SA_others

SA_Next ==
    \E chains \in SUBSET SA_Chains, multichain, unique \in BOOLEAN :
        SA_evaluate(chains, multichain, unique)

\* the chains on which the store tracks the address among the selectable ones
SA_trackedOn(address) ==
    {SA_accounts[i].chain : i \in {j \in 1..Len(SA_accounts) :
        /\ SA_accounts[j].address = address
        /\ SA_accounts[j].chain # "ALL"
        /\ SA_chains' = {} \/ SA_accounts[j].chain \in SA_chains'}}

\* C26: with multichain, the selectable list holds exactly one 'ALL' entry for
\* every address tracked on more than one selectable chain, also with unique,
\* and none for the other addresses; an evaluation leaves the accounts of the
\* store as they are.
C26_SelectableAccounts ==
    [][/\ SA_multichain' =>
            \A address \in SA_Addresses :
               Cardinality({i \in 1..Len(SA_selectable') :
                               SA_selectable'[i] = SA_All(address)})
                 = IF Cardinality(SA_trackedOn(address)) > 1 THEN 1 ELSE 0
       /\ SA_accounts' = SA_accounts]_vars

\* the selector is not shown
SA_Fixed ==
    /\ SA_accounts = <<>>
    /\ SA_chains = {}
    /\ SA_multichain = FALSE
    /\ SA_unique = FALSE
    /\ SA_selectable = <<>>

(***************************************************************************)
(* Blockchain account selector: selection                                  *)
(***************************************************************************)
SE_Items == [address : {"0x1", "0x2"}, chain : {"eth", "optimism", "ALL"}]
SE_noEmit == [count |-> 0, value |-> <<>>]

\* what the autocomplete hands to input: a list, one account or null
SE_List(list) == [kind |-> "list", list |-> list]
SE_One(item) == [kind |-> "one", list |-> <<item>>]
SE_Null == [kind |-> "null", list |-> <<>>]

SE_Init ==
    /\ SE_multiple \in BOOLEAN
    /\ SE_value = <<>>
    /\ SE_emitted = SE_noEmit

\* mutant of filterOutElements: nothing is filtered out
C27_filterOutNothing(lastElement, nextValue) == nextValue

filterOutElements(lastElement, nextValue) ==
    IF lastElement.chain = "ALL"
    THEN SelectSeq(nextValue,
                   LAMBDA x : x.address # lastElement.address \/ x.chain = "ALL")
    ELSE SelectSeq(nextValue,
                   LAMBDA x : x.address # lastElement.address \/ x.chain # "ALL")

\* the list that input emits
SE_result(nextValue) ==
    IF nextValue.kind = "list"
    THEN IF Len(nextValue.list) > 0 /\ Len(nextValue.list) > Len(SE_value)
         THEN filterOutElements(nextValue.list[Len(nextValue.list)], nextValue.list)
         ELSE nextValue.list
    ELSE IF nextValue.kind = "one" THEN nextValue.list ELSE <<>>

\* input, and the parent's new `value`: the emitted list, or only its last
\* account (the history events view)
input(nextValue, keepLast) ==
    /\ SE_emitted.count < SE_MaxEmits
    /\ SE_emitted' = [count |-> SE_emitted.count + 1, value |-> SE_result(nextValue)]
    /\ SE_value' = IF keepLast /\ SE_result(nextValue) # <<>>
                   THEN <<SE_result(nextValue)[Len(SE_result(nextValue))]>>
                   ELSE SE_result(nextValue)
    /\ UNCHANGED SE_multiple
    /\ UNCHANGED SE_others

SE_without(list, i) == [j \in 1..(Len(list) - 1) |-> IF j < i THEN list[j] ELSE list[j + 1]]
SE_selected == {SE_value[i] : i \in 1..Len(SE_value)}

\* an account that is not selected is picked: appended in a multiple selection
SE_pick(item, keepLast) ==
    /\ item \notin SE_selected
    /\ IF SE_multiple
       THEN /\ Len(SE_value) < SE_MaxLen
            /\ input(SE_List(SE_value \o <<item>>), keepLast)
       ELSE input(SE_One(item), keepLast)

\* the chip of a selected account is closed
SE_remove(i, keepLast) ==
    /\ SE_multiple /\ i \in 1..Len(SE_value)
    /\ input(SE_List(SE_without(SE_value, i)), keepLast)

\* the selection is cleared
SE_clear ==
    /\ SE_value # <<>>
    /\ input(IF SE_multiple THEN SE_List(<<>>) ELSE SE_Null, FALSE)

SE_Next ==
    \/ \E item \in SE_Items, keepLast \in BOOLEAN : SE_pick(item, keepLast)
    \/ \E i \in 1..SE_MaxLen, keepLast \in BOOLEAN : SE_remove(i, keepLast)
    \/ SE_clear

SE_others_of(list, address) == SelectSeq(list, LAMBDA x : x.address # address)

\* C27: after an account was added to a multiple selection the emitted list holds
\* it, holds of its address only 'ALL' (if 'ALL' was added) or only chain-specific
\* entries (otherwise), and holds the entries of the other addresses as they were;
\* a removal emits the list it is given; one account is emitted as a list of one
\* and null as the empty list.
C27_Selection ==
    [][/\ \A item \in SE_Items, keepLast \in BOOLEAN :
            (SE_pick(item, keepLast) /\ SE_multiple) =>
               LET next == SE_value \o <<item>>
                   out == SE_emitted'.value
               IN /\ \E i \in 1..Len(out) : out[i] = item
                  /\ \A i \in 1..Len(out) :
                        out[i].address = item.address =>
                           ((out[i].chain = "ALL") <=> (item.chain = "ALL"))
                  /\ \A i \in 1..Len(next) :
                        (/\ next[i].address = item.address
                         /\ (next[i].chain = "ALL") <=> (item.chain = "ALL"))
                           => \E j \in 1..Len(out) : out[j] = next[i]
                  /\ SE_others_of(out, item.address) = SE_others_of(next, item.address)
       /\ \A i \in 1..SE_MaxLen, keepLast \in BOOLEAN :
            SE_remove(i, keepLast) => SE_emitted'.value = SE_without(SE_value, i)
       /\ \A item \in SE_Items, keepLast \in BOOLEAN :
            (SE_pick(item, keepLast) /\ ~SE_multiple) => SE_emitted'.value = <<item>>
       /\ (SE_clear /\ ~SE_multiple) => SE_emitted'.value = <<>>]_vars

\* 'ALL' of an address was added to a selection that held that address on a
\* chain and another address
C27_Witness ==
    /\ SE_emitted.count > 1
    /\ SE_emitted.value = <<[address |-> "0x2", chain |-> "eth"],
                            [address |-> "0x1", chain |-> "ALL"]>>
    /\ SE_value = SE_emitted.value

\* the selector is not shown
SE_Fixed ==
    /\ SE_multiple = FALSE
    /\ SE_value = <<>>
    /\ SE_emitted = SE_noEmit

(***************************************************************************)
(* History events view: account filter                                     *)
(***************************************************************************)
HV_Accounts == [address : {"0x1", "0x2", "0x3"}, chain : {"eth", "optimism"}]
HV_Locations == {"undefined", "kraken", "ethereum"}
HV_Filters == [location : HV_Locations, asset : {"undefined", "ETH"}]
HV_AccountLists == UNION {[1..n -> HV_Accounts] : n \in 0..HV_MaxAccounts}
\* the accounts of a route query: absent, or a list
HV_Queries == {[present |-> FALSE, accounts |-> <<>>]}
              \cup {[present |-> TRUE, accounts |-> list] : list \in HV_AccountLists}
HV_externalAccountFilter ==
    <<[address |-> "0x1", chain |-> "eth"], [address |-> "0x2", chain |-> "eth"]>>

HV_Init ==
    /\ HV_accounts = <<>>
    /\ HV_useExternalAccountFilter \in BOOLEAN
    /\ HV_filters = [location |-> "undefined", asset |-> "undefined"]
    /\ HV_page = 1
    /\ HV_locationOverview \in HV_Locations

HV_used(accountsVal) ==
    IF HV_useExternalAccountFilter THEN HV_externalAccountFilter
    ELSE IF Len(accountsVal) > 0 THEN <<accountsVal[1]>> ELSE accountsVal

usedAccounts == HV_used(HV_accounts)

\* mutant of HV_watch: only a change of the accounts counts
C28_watchAccountsOnly(filters, accountsVal, page) ==
    IF HV_used(accountsVal) # usedAccounts
    THEN /\ HV_locationOverview' = filters.location
         /\ HV_page' = 1
    ELSE /\ HV_locationOverview' = HV_locationOverview
         /\ HV_page' = page

\* watch([filters, usedAccounts]) after a handler has left these filters, these
\* accounts and this page; updateFilter is given a copy of the filters
HV_watch(filters, accountsVal, page) ==
    IF filters # HV_filters \/ HV_used(accountsVal) # usedAccounts
    THEN /\ HV_locationOverview' = filters.location
         /\ HV_page' = 1
    ELSE /\ HV_locationOverview' = HV_locationOverview
         /\ HV_page' = page

\* the route query is applied: filters and page of the query, onUpdateFilters
onUpdateFilters(query, filters, page) ==
    /\ HV_accounts' = IF ~query.present THEN <<>>
                      ELSE IF Len(query.accounts) > 0 THEN <<query.accounts[1]>>
                      ELSE <<>>
    /\ HV_filters' = filters
    /\ HV_watch(filters, HV_accounts', page)
    /\ UNCHANGED HV_useExternalAccountFilter
    /\ UNCHANGED HV_others

\* @input of the account selector
onFilterAccountsChanged(acc) ==
    /\ ~HV_useExternalAccountFilter
    /\ HV_accounts' = IF Len(acc) > 0 THEN <<acc[1]>> ELSE <<>>
    /\ HV_watch(HV_filters, HV_accounts', HV_page)
    /\ UNCHANGED <<HV_filters, HV_useExternalAccountFilter>>
    /\ UNCHANGED HV_others

\* the table filter sets the filters
HV_setFilter(filters) ==
    /\ filters # HV_filters
    /\ HV_filters' = filters
    /\ HV_watch(filters, HV_accounts, HV_page)
    /\ UNCHANGED <<HV_accounts, HV_useExternalAccountFilter>>
    /\ UNCHANGED HV_others

\* the table sets the page
HV_setPage(page) ==
    /\ page # HV_page
    /\ HV_page' = page
    /\ UNCHANGED <<HV_accounts, HV_useExternalAccountFilter, HV_filters,
                   HV_locationOverview>>
    /\ UNCHANGED HV_others

HV_Next ==
    \/ \E query \in HV_Queries, filters \in HV_Filters, page \in 1..HV_MaxPage :
          onUpdateFilters(query, filters, page)
    \/ \E acc \in HV_AccountLists : onFilterAccountsChanged(acc)
    \/ \E filters \in HV_Filters : HV_setFilter(filters)
    \/ \E page \in 1..HV_MaxPage : HV_setPage(page)

\* C28: the internal account filter never holds more than one account; a step
\* that changes the filters or the used accounts leaves page 1 and the filters'
\* location in locationOverview; a route update or selector input that changes
\* neither leaves locationOverview as it was and the page as the update set it.
C28_AccountFilter ==
    /\ [](Len(HV_accounts) <= 1)
    /\ [][LET used == IF HV_useExternalAccountFilter THEN HV_externalAccountFilter
                      ELSE HV_accounts
          IN IF HV_filters' # HV_filters \/ used' # used
             THEN HV_page' = 1 /\ HV_locationOverview' = HV_filters'.location
             ELSE /\ HV_locationOverview' = HV_locationOverview
                  /\ \A query \in HV_Queries, filters \in HV_Filters,
                        page \in 1..HV_MaxPage :
                        onUpdateFilters(query, filters, page) => HV_page' = page
                  /\ \A acc \in HV_AccountLists :
                        onFilterAccountsChanged(acc) => HV_page' = HV_page]_vars

\* an account and a location are set and locationOverview has followed
C28_Witness ==
    /\ HV_accounts = <<[address |-> "0x2", chain |-> "eth"]>>
    /\ HV_filters.location = "kraken"
    /\ HV_locationOverview = "kraken"
    /\ HV_page = 1
    /\ ~HV_useExternalAccountFilter

\* the view is not shown
HV_Fixed ==
    /\ HV_accounts = <<>>
    /\ HV_useExternalAccountFilter = FALSE
    /\ HV_filters = [location |-> "undefined", asset |-> "undefined"]
    /\ HV_page = 1
    /\ HV_locationOverview = "undefined"

(***************************************************************************)
(* Snapshot balance form                                                   *)
(***************************************************************************)
BF_NftPrefix == <<"_", "n", "f", "t", "_">>
BF_Identifiers == {<<>>, <<"E", "T", "H">>, <<"n", "f", "t">>,
                   BF_NftPrefix \o <<"1">>, BF_NftPrefix \o <<"2">>}
BF_Forms == [category : {"asset", "liability"},
             assetIdentifier : BF_Identifiers,
             amount : {"", "1", "2"}]
\* the identifiers of NFTs start with _nft_
isNft(assetIdentifier) == StartsWith(assetIdentifier, BF_NftPrefix)

BF_noEmit == [count |-> 0, form |-> [category |-> "asset", assetIdentifier |-> <<>>,
                                     amount |-> ""]]

\* checkAssetType for this form
checkAssetType(form, assetType) ==
    IF isNft(form.assetIdentifier) THEN "nft" ELSE assetType

\* onBeforeMount; watch(assetType) has nothing to compare with yet
BF_Init ==
    /\ BF_edit \in BOOLEAN
    /\ BF_form \in BF_Forms
    /\ BF_assetType = checkAssetType(BF_form, "token")
    /\ BF_emitted = BF_noEmit

\* the prop `form` changes: watch(form), then watch(assetType) if the type has
\* become 'nft', whose update:form the parent puts into the prop
BF_formChanged(form) ==
    /\ form # BF_form
    /\ BF_assetType' = checkAssetType(form, BF_assetType)
    /\ IF BF_assetType' # BF_assetType /\ BF_assetType' = "nft"
       THEN /\ BF_emitted.count < BF_MaxEmits
            /\ BF_emitted' = [count |-> BF_emitted.count + 1,
                              form |-> [form EXCEPT !.amount = "1"]]
            /\ BF_form' = BF_emitted'.form
       ELSE /\ BF_form' = form
            /\ UNCHANGED BF_emitted
    /\ UNCHANGED BF_edit
    /\ UNCHANGED BF_others

\* the parent shows another balance, for editing or for adding
BF_propsChanged(edit, form) ==
    /\ BF_edit' = edit
    /\ BF_formChanged(form)

\* @input of the asset field, of the category and of the amount: updateForm,
\* which the parent puts into the prop
BF_updateForm(form) ==
    /\ BF_emitted.count < BF_MaxEmits
    /\ \/ /\ ~BF_edit
          /\ form = [BF_form EXCEPT !.assetIdentifier = form.assetIdentifier]
       \/ form = [BF_form EXCEPT !.category = form.category]
       \/ /\ BF_assetType # "nft"
          /\ form = [BF_form EXCEPT !.amount = form.amount]
    /\ form # BF_form
    /\ BF_assetType' = checkAssetType(form, BF_assetType)
    /\ IF BF_assetType' # BF_assetType /\ BF_assetType' = "nft"
       THEN /\ BF_emitted' = [count |-> BF_emitted.count + 1,
                              form |-> [form EXCEPT !.amount = "1"]]
            /\ BF_form' = BF_emitted'.form
       ELSE /\ BF_emitted' = [count |-> BF_emitted.count + 1, form |-> form]
            /\ BF_form' = form
    /\ UNCHANGED BF_edit
    /\ UNCHANGED BF_others

BF_Next ==
    \/ \E edit \in BOOLEAN, form \in BF_Forms : BF_propsChanged(edit, form)
    \/ \E form \in BF_Forms : BF_updateForm(form)

\* C29: the asset type is 'nft' exactly when the assetIdentifier of the form is
\* the identifier of an NFT, and 'token' otherwise.
C29_AssetType ==
    BF_assetType = IF isNft(BF_form.assetIdentifier) THEN "nft" ELSE "token"

\* the form is not shown
BF_Fixed ==
    /\ BF_edit = FALSE
    /\ BF_form = BF_noEmit.form
    /\ BF_assetType = "token"
    /\ BF_emitted = BF_noEmit

(***************************************************************************)
(* External trade form                                                     *)
(***************************************************************************)
\* texts are "" or the decimal text of a number of quarters
TR_numeric(text) == CHOOSE q \in 0..TR_MaxQuarters : toFixed(q) = text
TR_times(a, b) == (TR_numeric(a) * TR_numeric(b)) \div 4
TR_div(a, b) == (TR_numeric(a) * 4) \div TR_numeric(b)
TR_Amounts == {"", "1", "2"}
TR_Rates == {"", "0.5", "2"}
TR_QuoteAmounts == {"", "1", "4"}
\* the historic prices, in quarters; 0 when none is found
TR_Prices == {0, 4, 6}
TR_Watchers == <<"rate", "amount", "quoteAmount">>
TR_noChange == [op |-> "none", rate |-> "", quoteAmount |-> "", focused |-> FALSE]

TR_Init ==
    /\ TR_amount = "" /\ TR_rate = "" /\ TR_quoteAmount = ""
    /\ TR_quoteAmountInputFocused = FALSE
    /\ TR_fetching = FALSE
    /\ TR_rateNotFound = FALSE
    /\ TR_queue = {}
    /\ TR_chain = 0
    /\ TR_last = TR_noChange

\* updateRate: the quote amount it leaves
updateRate(amount, rate, quoteAmount, forceUpdate) ==
    IF amount # "" /\ rate # "" /\ (~TR_quoteAmountInputFocused \/ forceUpdate)
    THEN toFixed(TR_times(amount, rate))
    ELSE quoteAmount

\* onQuoteAmountChange: the rate it leaves
onQuoteAmountChange(amount, rate, quoteAmount) ==
    IF amount # "" /\ quoteAmount # "" /\ TR_quoteAmountInputFocused
    THEN toFixed(TR_div(quoteAmount, amount))
    ELSE rate

TR_representable(amount, rate, quoteAmount) ==
    /\ (amount # "" /\ rate # "") => TR_times(amount, rate) <= TR_MaxQuarters
    /\ (amount # "" /\ quoteAmount # "") => TR_div(quoteAmount, amount) <= TR_MaxQuarters

\* the watchers of the refs that differ
TR_changed(amount, rate, quoteAmount) ==
    {w \in {"rate", "amount", "quoteAmount"} :
        \/ w = "rate" /\ rate # TR_rate
        \/ w = "amount" /\ amount # TR_amount
        \/ w = "quoteAmount" /\ quoteAmount # TR_quoteAmount}

TR_Last(op, rate, quoteAmount) ==
    [op |-> op, rate |-> rate, quoteAmount |-> quoteAmount,
     focused |-> TR_quoteAmountInputFocused]

\* a field is set by the user: amount always, of rate and quote amount the one
\* that the two-fields input has active
TR_input(amount, rate, quoteAmount) ==
    /\ TR_queue = {}
    /\ ~TR_fetching \/ (rate = TR_rate /\ quoteAmount = TR_quoteAmount)
    /\ Cardinality(TR_changed(amount, rate, quoteAmount)) = 1
    /\ rate # TR_rate => ~TR_quoteAmountInputFocused
    /\ quoteAmount # TR_quoteAmount => TR_quoteAmountInputFocused
    /\ TR_representable(amount, rate, quoteAmount)
    /\ TR_amount' = amount /\ TR_rate' = rate /\ TR_quoteAmount' = quoteAmount
    /\ TR_queue' = TR_changed(amount, rate, quoteAmount)
    /\ TR_chain' = 0
    /\ TR_last' = TR_Last("input", rate, quoteAmount)
    /\ UNCHANGED <<TR_quoteAmountInputFocused, TR_fetching, TR_rateNotFound>>
    /\ UNCHANGED TR_others

\* @update:reversed of the two-fields input
TR_reversed(reversed) ==
    /\ TR_queue = {}
    /\ reversed # TR_quoteAmountInputFocused
    /\ TR_quoteAmountInputFocused' = reversed
    /\ TR_last' = TR_noChange
    /\ UNCHANGED <<TR_amount, TR_rate, TR_quoteAmount, TR_fetching, TR_rateNotFound,
                   TR_queue, TR_chain>>
    /\ UNCHANGED TR_others

\* the first watcher of the queue runs
TR_watcher ==
    /\ TR_queue # {}
    /\ TR_chain < TR_MaxChain
    /\ LET w == TR_Watchers[CHOOSE i \in 1..3 :
                     /\ TR_Watchers[i] \in TR_queue
                     /\ \A j \in 1..(i - 1) : TR_Watchers[j] \notin TR_queue]
           quoteAmount == IF w \in {"rate", "amount"}
                          THEN updateRate(TR_amount, TR_rate, TR_quoteAmount, FALSE)
                          ELSE TR_quoteAmount
           rate == IF w \in {"amount", "quoteAmount"}
                   THEN onQuoteAmountChange(TR_amount, TR_rate, quoteAmount)
                   ELSE TR_rate
       IN /\ TR_representable(TR_amount, rate, quoteAmount)
          /\ TR_rate' = rate
          /\ TR_quoteAmount' = quoteAmount
          /\ TR_queue' = (TR_queue \ {w}) \cup TR_changed(TR_amount, rate, quoteAmount)
    /\ TR_chain' = TR_chain + 1
    /\ UNCHANGED <<TR_amount, TR_quoteAmountInputFocused, TR_fetching, TR_rateNotFound,
                   TR_last>>
    /\ UNCHANGED TR_others

\* watch([datetime, quote, base]) with all three set and no trade edited:
\* fetchPrice up to its await
fetchPrice ==
    /\ TR_queue = {}
    /\ ~TR_fetching
    /\ TR_fetching' = TRUE
    /\ UNCHANGED <<TR_amount, TR_rate, TR_quoteAmount, TR_quoteAmountInputFocused,
                   TR_rateNotFound, TR_queue, TR_chain, TR_last>>
    /\ UNCHANGED TR_others

\* the historic price arrives: the rest of fetchPrice
TR_fetched(price) ==
    /\ TR_queue = {}
    /\ TR_fetching
    /\ TR_fetching' = FALSE
    /\ IF price > 0
       THEN /\ TR_representable(TR_amount, toFixed(price), TR_quoteAmount)
            /\ TR_rate' = toFixed(price)
            /\ TR_quoteAmount' = updateRate(TR_amount, TR_rate', TR_quoteAmount, TRUE)
            /\ TR_queue' = TR_changed(TR_amount, TR_rate', TR_quoteAmount')
            /\ TR_chain' = 0
            /\ TR_last' = TR_Last("fetched", TR_rate', TR_quoteAmount)
            /\ UNCHANGED TR_rateNotFound
       ELSE /\ TR_rateNotFound' = (TR_rate = "" \/ TR_rateNotFound)
            /\ UNCHANGED <<TR_rate, TR_quoteAmount, TR_queue, TR_chain, TR_last>>
    /\ UNCHANGED <<TR_amount, TR_quoteAmountInputFocused>>
    /\ UNCHANGED TR_others

\* 4 seconds later the error is removed
TR_timeout ==
    /\ TR_rateNotFound
    /\ TR_rateNotFound' = FALSE
    /\ UNCHANGED <<TR_amount, TR_rate, TR_quoteAmount, TR_quoteAmountInputFocused,
                   TR_fetching, TR_queue, TR_chain, TR_last>>
    /\ UNCHANGED TR_others

TR_Next ==
    \/ \E amount \in TR_Amounts, rate \in TR_Rates \cup {TR_rate},
          quoteAmount \in TR_QuoteAmounts \cup {TR_quoteAmount} :
          TR_input(amount, rate, quoteAmount)
    \/ \E reversed \in BOOLEAN : TR_reversed(reversed)
    \/ TR_watcher
    \/ fetchPrice
    \/ \E price \in TR_Prices : TR_fetched(price)
    \/ TR_timeout

\* C30: after a change of amount, rate or quote amount, by the user or by a
\* fetched price, the watchers come to rest within a few runs; then, with all
\* three fields set, the quote amount is amount x rate and the rate is the one
\* entered if the quote amount was not focused, and the rate is quote amount /
\* amount and the quote amount is the one entered if it was focused.
C30_WatcherChain ==
    /\ TR_queue # {} => TR_chain < TR_MaxChain
    /\ (/\ TR_queue = {} /\ TR_last.op # "none"
        /\ TR_amount # "" /\ TR_rate # "" /\ TR_quoteAmount # "")
          => IF ~TR_last.focused
             THEN /\ TR_quoteAmount = toFixed(TR_times(TR_amount, TR_rate))
                  /\ TR_rate = TR_last.rate
             ELSE /\ TR_rate = toFixed(TR_div(TR_quoteAmount, TR_amount))
                  /\ TR_quoteAmount = TR_last.quoteAmount

\* the form is not shown
TR_Fixed ==
    /\ TR_amount = "" /\ TR_rate = "" /\ TR_quoteAmount = ""
    /\ TR_quoteAmountInputFocused = FALSE
    /\ TR_fetching = FALSE
    /\ TR_rateNotFound = FALSE
    /\ TR_queue = {}
    /\ TR_chain = 0
    /\ TR_last = TR_noChange

(***************************************************************************)
(* Specifications: one component on the page at a time                     *)
(***************************************************************************)
InitExternalServices == ES_Init /\ SN_Fixed /\ HE_Fixed /\ TF_Fixed /\ PL_Fixed
    /\ NM_Fixed /\ BK_Fixed /\ DP_Fixed /\ FI_Fixed /\ AF_Fixed /\ CD_Fixed /\ CA_Fixed
    /\ MB_Fixed /\ SI_Fixed /\ ST_Fixed /\ NF_Fixed /\ SA_Fixed /\ SE_Fixed /\ HV_Fixed
    /\ BF_Fixed /\ TR_Fixed
SpecExternalServices == InitExternalServices /\ [][ES_Next]_vars

InitSnapshot == SN_Init /\ ES_Fixed /\ HE_Fixed /\ TF_Fixed /\ PL_Fixed /\ NM_Fixed
    /\ BK_Fixed /\ DP_Fixed /\ FI_Fixed /\ AF_Fixed /\ CD_Fixed /\ CA_Fixed /\ MB_Fixed
    /\ SI_Fixed /\ ST_Fixed /\ NF_Fixed /\ SA_Fixed /\ SE_Fixed /\ HV_Fixed /\ BF_Fixed
    /\ TR_Fixed
SpecSnapshot == InitSnapshot /\ [][SN_Next]_vars

InitHistoryEvents == HE_Init /\ ES_Fixed /\ SN_Fixed /\ TF_Fixed /\ PL_Fixed /\ NM_Fixed
    /\ BK_Fixed /\ DP_Fixed /\ FI_Fixed /\ AF_Fixed /\ CD_Fixed /\ CA_Fixed /\ MB_Fixed
    /\ SI_Fixed /\ ST_Fixed /\ NF_Fixed /\ SA_Fixed /\ SE_Fixed /\ HV_Fixed /\ BF_Fixed
    /\ TR_Fixed
SpecHistoryEvents == InitHistoryEvents /\ [][HE_Next]_vars

InitTableFilter == TF_Init /\ ES_Fixed /\ SN_Fixed /\ HE_Fixed /\ PL_Fixed /\ NM_Fixed
    /\ BK_Fixed /\ DP_Fixed /\ FI_Fixed /\ AF_Fixed /\ CD_Fixed /\ CA_Fixed /\ MB_Fixed
    /\ SI_Fixed /\ ST_Fixed /\ NF_Fixed /\ SA_Fixed /\ SE_Fixed /\ HV_Fixed /\ BF_Fixed
    /\ TR_Fixed
SpecTableFilter == InitTableFilter /\ [][TF_Next]_vars

InitProfitLossEvents == PL_Init /\ ES_Fixed /\ SN_Fixed /\ HE_Fixed /\ TF_Fixed
    /\ NM_Fixed /\ BK_Fixed /\ DP_Fixed /\ FI_Fixed /\ AF_Fixed /\ CD_Fixed /\ CA_Fixed
    /\ MB_Fixed /\ SI_Fixed /\ ST_Fixed /\ NF_Fixed /\ SA_Fixed /\ SE_Fixed /\ HV_Fixed
    /\ BF_Fixed /\ TR_Fixed
SpecProfitLossEvents == InitProfitLossEvents /\ [][PL_Next]_vars

InitNodeManager == NM_Init /\ ES_Fixed /\ SN_Fixed /\ HE_Fixed /\ TF_Fixed /\ PL_Fixed
    /\ BK_Fixed /\ DP_Fixed /\ FI_Fixed /\ AF_Fixed /\ CD_Fixed /\ CA_Fixed /\ MB_Fixed
    /\ SI_Fixed /\ ST_Fixed /\ NF_Fixed /\ SA_Fixed /\ SE_Fixed /\ HV_Fixed /\ BF_Fixed
    /\ TR_Fixed
SpecNodeManager == InitNodeManager /\ [][NM_Next]_vars

InitBackupManager == BK_Init /\ ES_Fixed /\ SN_Fixed /\ HE_Fixed /\ TF_Fixed /\ PL_Fixed
    /\ NM_Fixed /\ DP_Fixed /\ FI_Fixed /\ AF_Fixed /\ CD_Fixed /\ CA_Fixed /\ MB_Fixed
    /\ SI_Fixed /\ ST_Fixed /\ NF_Fixed /\ SA_Fixed /\ SE_Fixed /\ HV_Fixed /\ BF_Fixed
    /\ TR_Fixed
SpecBackupManager == InitBackupManager /\ [][BK_Next]_vars

InitDeletePrompt == DP_Init /\ ES_Fixed /\ SN_Fixed /\ HE_Fixed /\ TF_Fixed /\ PL_Fixed
    /\ NM_Fixed /\ BK_Fixed /\ FI_Fixed /\ AF_Fixed /\ CD_Fixed /\ CA_Fixed /\ MB_Fixed
    /\ SI_Fixed /\ ST_Fixed /\ NF_Fixed /\ SA_Fixed /\ SE_Fixed /\ HV_Fixed /\ BF_Fixed
    /\ TR_Fixed
SpecDeletePrompt == InitDeletePrompt /\ [][DP_Next]_vars

InitTableFilterInput == FI_Init /\ ES_Fixed /\ SN_Fixed /\ HE_Fixed /\ TF_Fixed
    /\ PL_Fixed /\ NM_Fixed /\ BK_Fixed /\ DP_Fixed /\ AF_Fixed /\ CD_Fixed /\ CA_Fixed
    /\ MB_Fixed /\ SI_Fixed /\ ST_Fixed /\ NF_Fixed /\ SA_Fixed /\ SE_Fixed /\ HV_Fixed
    /\ BF_Fixed /\ TR_Fixed
SpecTableFilterInput == InitTableFilterInput /\ [][FI_Next]_vars

InitManagedAssetForm == AF_Init /\ ES_Fixed /\ SN_Fixed /\ HE_Fixed /\ TF_Fixed
    /\ PL_Fixed /\ NM_Fixed /\ BK_Fixed /\ DP_Fixed /\ FI_Fixed /\ CD_Fixed /\ CA_Fixed
    /\ MB_Fixed /\ SI_Fixed /\ ST_Fixed /\ NF_Fixed /\ SA_Fixed /\ SE_Fixed /\ HV_Fixed
    /\ BF_Fixed /\ TR_Fixed
SpecManagedAssetForm == InitManagedAssetForm /\ [][AF_Next]_vars

InitConflictDialog == CD_Init /\ ES_Fixed /\ SN_Fixed /\ HE_Fixed /\ TF_Fixed
    /\ PL_Fixed /\ NM_Fixed /\ BK_Fixed /\ DP_Fixed /\ FI_Fixed /\ AF_Fixed /\ CA_Fixed
    /\ MB_Fixed /\ SI_Fixed /\ ST_Fixed /\ NF_Fixed /\ SA_Fixed /\ SE_Fixed /\ HV_Fixed
    /\ BF_Fixed /\ TR_Fixed
SpecConflictDialog == InitConflictDialog /\ [][CD_Next]_vars

InitCreateAccount == CA_Init /\ ES_Fixed /\ SN_Fixed /\ HE_Fixed /\ TF_Fixed /\ PL_Fixed
    /\ NM_Fixed /\ BK_Fixed /\ DP_Fixed /\ FI_Fixed /\ AF_Fixed /\ CD_Fixed /\ MB_Fixed
    /\ SI_Fixed /\ ST_Fixed /\ NF_Fixed /\ SA_Fixed /\ SE_Fixed /\ HV_Fixed /\ BF_Fixed
    /\ TR_Fixed
SpecCreateAccount == InitCreateAccount /\ [][CA_Next]_vars

InitManualBalanceForm == MB_Init /\ ES_Fixed /\ SN_Fixed /\ HE_Fixed /\ TF_Fixed
    /\ PL_Fixed /\ NM_Fixed /\ BK_Fixed /\ DP_Fixed /\ FI_Fixed /\ AF_Fixed /\ CD_Fixed
    /\ CA_Fixed /\ SI_Fixed /\ ST_Fixed /\ NF_Fixed /\ SA_Fixed /\ SE_Fixed /\ HV_Fixed
    /\ BF_Fixed /\ TR_Fixed
SpecManualBalanceForm == InitManualBalanceForm /\ [][MB_Next]_vars

InitSyncIndicator == SI_Init /\ ES_Fixed /\ SN_Fixed /\ HE_Fixed /\ TF_Fixed /\ PL_Fixed
    /\ NM_Fixed /\ BK_Fixed /\ DP_Fixed /\ FI_Fixed /\ AF_Fixed /\ CD_Fixed /\ CA_Fixed
    /\ MB_Fixed /\ ST_Fixed /\ NF_Fixed /\ SA_Fixed /\ SE_Fixed /\ HV_Fixed /\ BF_Fixed
    /\ TR_Fixed
SpecSyncIndicator == InitSyncIndicator /\ [][SI_Next]_vars

InitSnapshotTotal == ST_Init /\ ES_Fixed /\ SN_Fixed /\ HE_Fixed /\ TF_Fixed /\ PL_Fixed
    /\ NM_Fixed /\ BK_Fixed /\ DP_Fixed /\ FI_Fixed /\ AF_Fixed /\ CD_Fixed /\ CA_Fixed
    /\ MB_Fixed /\ SI_Fixed /\ NF_Fixed /\ SA_Fixed /\ SE_Fixed /\ HV_Fixed /\ BF_Fixed
    /\ TR_Fixed
SpecSnapshotTotal == InitSnapshotTotal /\ [][ST_Next]_vars

InitNftImageRendering == NF_Init /\ ES_Fixed /\ SN_Fixed /\ HE_Fixed /\ TF_Fixed
    /\ PL_Fixed /\ NM_Fixed /\ BK_Fixed /\ DP_Fixed /\ FI_Fixed /\ AF_Fixed /\ CD_Fixed
    /\ CA_Fixed /\ MB_Fixed /\ SI_Fixed /\ ST_Fixed /\ SA_Fixed /\ SE_Fixed /\ HV_Fixed
    /\ BF_Fixed /\ TR_Fixed
SpecNftImageRendering == InitNftImageRendering /\ [][NF_Next]_vars

InitSelectableAccounts == SA_Init /\ ES_Fixed /\ SN_Fixed /\ HE_Fixed /\ TF_Fixed
    /\ PL_Fixed /\ NM_Fixed /\ BK_Fixed /\ DP_Fixed /\ FI_Fixed /\ AF_Fixed /\ CD_Fixed
    /\ CA_Fixed /\ MB_Fixed /\ SI_Fixed /\ ST_Fixed /\ NF_Fixed /\ SE_Fixed /\ HV_Fixed
    /\ BF_Fixed /\ TR_Fixed
SpecSelectableAccounts == InitSelectableAccounts /\ [][SA_Next]_vars

InitAccountSelection == SE_Init /\ ES_Fixed /\ SN_Fixed /\ HE_Fixed /\ TF_Fixed
    /\ PL_Fixed /\ NM_Fixed /\ BK_Fixed /\ DP_Fixed /\ FI_Fixed /\ AF_Fixed /\ CD_Fixed
    /\ CA_Fixed /\ MB_Fixed /\ SI_Fixed /\ ST_Fixed /\ NF_Fixed /\ SA_Fixed /\ HV_Fixed
    /\ BF_Fixed /\ TR_Fixed
SpecAccountSelection == InitAccountSelection /\ [][SE_Next]_vars

InitHistoryEventsView == HV_Init /\ ES_Fixed /\ SN_Fixed /\ HE_Fixed /\ TF_Fixed
    /\ PL_Fixed /\ NM_Fixed /\ BK_Fixed /\ DP_Fixed /\ FI_Fixed /\ AF_Fixed /\ CD_Fixed
    /\ CA_Fixed /\ MB_Fixed /\ SI_Fixed /\ ST_Fixed /\ NF_Fixed /\ SA_Fixed /\ SE_Fixed
    /\ BF_Fixed /\ TR_Fixed
SpecHistoryEventsView == InitHistoryEventsView /\ [][HV_Next]_vars

InitSnapshotBalanceForm == BF_Init /\ ES_Fixed /\ SN_Fixed /\ HE_Fixed /\ TF_Fixed
    /\ PL_Fixed /\ NM_Fixed /\ BK_Fixed /\ DP_Fixed /\ FI_Fixed /\ AF_Fixed /\ CD_Fixed
    /\ CA_Fixed /\ MB_Fixed /\ SI_Fixed /\ ST_Fixed /\ NF_Fixed /\ SA_Fixed /\ SE_Fixed
    /\ HV_Fixed /\ TR_Fixed
SpecSnapshotBalanceForm == InitSnapshotBalanceForm /\ [][BF_Next]_vars

InitExternalTradeForm == TR_Init /\ ES_Fixed /\ SN_Fixed /\ HE_Fixed /\ TF_Fixed
    /\ PL_Fixed /\ NM_Fixed /\ BK_Fixed /\ DP_Fixed /\ FI_Fixed /\ AF_Fixed /\ CD_Fixed
    /\ CA_Fixed /\ MB_Fixed /\ SI_Fixed /\ ST_Fixed /\ NF_Fixed /\ SA_Fixed /\ SE_Fixed
    /\ HV_Fixed /\ BF_Fixed
SpecExternalTradeForm == InitExternalTradeForm /\ [][TR_Next]_vars
====
